---- MODULE Spec2Model ----
(***************************************************************************)
(* State-machine model of the broker stream transport                      *)
(* (include/broker/alm/stream_transport.hh): path tables, peering, the     *)
(* fused downstream manager, inbound batch dispatch with TTL forwarding,   *)
(* and block/unblock buffering.  Every endpoint of the overlay runs the    *)
(* same handlers; all state is indexed by endpoint.                        *)
(***************************************************************************)
EXTENDS Integers, Sequences, FiniteSets, TLC

\* ------------------------------------------------------------------------
\* Bounds of the model
\* ------------------------------------------------------------------------

\* Number of inbound batches the environment hands to one endpoint.
MaxBatches == 2

\* Number of local publishes.
MaxPublish == 1

\* Number of start_peering calls (each brings a fresh response promise).
MaxPromises == 1

\* Largest credit a path can hold.
MaxCredit == 2

\* Largest slot number a stream manager hands out.
MaxSlot == 4

\* Forwarding hops the overlay specification explores per message copy.
MaxHops == 4

\* ------------------------------------------------------------------------
\* Program constants
\* ------------------------------------------------------------------------

\* caf::invalid_stream_slot
invalid_stream_slot == 0

\* using ttl = uint16_t: TTL arithmetic is modulo 2^16.
TTLMod == 65536

\* ------------------------------------------------------------------------
\* Handles, addresses, topics
\* ------------------------------------------------------------------------

Nodes == {"n0", "n1", "n2"}

\* A default-constructed caf::actor / caf::actor_addr.
null == "null"

\* hdl.address(): the address of a handle is the handle's identity.
address(hdl) == hdl

EmptyMap == [x \in {} |-> null]

MapErase(f, k) == [x \in DOMAIN f \ {k} |-> f[x]]

\* std::unordered_map::emplace: inserts only when the key is absent.
MapEmplace(f, k, v) == IF k \in DOMAIN f THEN f ELSE (k :> v) @@ f

MapSet(f, k, v) == (k :> v) @@ MapErase(f, k)

\* Topics are strings, modelled as sequences of characters.
T_a == <<"a">>
T_b == <<"b">>
T_c == <<"c">>

T_clone == <<"f", "/", "c", "l", "o", "n", "e">>

\* topics::clone_suffix.string()
clone_suffix == <<"c", "l", "o", "n", "e">>

IsPrefix(p, s) == Len(p) <= Len(s) /\ \A i \in 1..Len(p) : p[i] = s[i]

\* detail::prefix_matcher: some prefix of the filter is a segment-aligned
\* prefix of the topic.
prefix_matcher(filter, t) ==
  \E p \in filter :
    /\ IsPrefix(p, t)
    /\ (Len(p) = 0 \/ Len(p) = Len(t) \/ t[Len(p) + 1] = "/")

\* peer_filter_matcher: never selects the path of the active sender.
peer_filter_matcher(active_sender, f, t) ==
  f[1] # active_sender /\ prefix_matcher(f[2], t)

\* The ends_with lambda of handle_batch: std::equal over reverse iterators.
ends_with(s, ending) ==
  IF Len(ending) > Len(s) THEN FALSE
  ELSE \A i \in 0..(Len(ending) - 1) : ending[Len(ending) - i] = s[Len(s) - i]

Min(a, b) == IF a < b THEN a ELSE b

SetMax(S) == IF S = {} THEN 0 ELSE CHOOSE x \in S : \A y \in S : y <= x

\* The elements of a set of integers in increasing order.
RECURSIVE SortedSeq(_)
SortedSeq(S) ==
  IF S = {} THEN <<>>
  ELSE LET m == CHOOSE x \in S : \A y \in S : x <= y
       IN <<m>> \o SortedSeq(S \ {m})

RECURSIVE SelectTopics(_, _, _)
\* The pieces of xs that manager m's selector accepts for filter f.
SelectTopics(m, f, xs) ==
  IF xs = <<>> THEN <<>>
  ELSE LET piece == Head(xs)
           ok == IF m.kind = "peer"
                 THEN peer_filter_matcher(m.active_sender, f, piece.topic)
                 ELSE prefix_matcher(f, piece.topic)
       IN (IF ok THEN <<piece>> ELSE <<>>) \o SelectTopics(m, f, Tail(xs))

\* ------------------------------------------------------------------------
\* Messages
\* ------------------------------------------------------------------------

\* data_message / command_message: (topic, payload); id names the payload.
make_content(id, kind, t) == [id |-> id, kind |-> kind, topic |-> t]

\* make_node_message(content, ttl); hops counts the forwarding steps the
\* copy went through.
make_node_message(c, ttl) ==
  [id |-> c.id, kind |-> c.kind, topic |-> c.topic, ttl |-> ttl, hops |-> 0]

get_content(msg) == make_content(msg.id, msg.kind, msg.topic)

is_data_message(msg) == msg.kind = "data"

\* ------------------------------------------------------------------------
\* caf::broadcast_downstream_manager (one per traffic class)
\* ------------------------------------------------------------------------
\* A manager is [kind, buf, paths, active_sender]: buf is the central
\* buffer, paths maps a slot to [hdl, filter, cache, credit, pending,
\* closing] and active_sender is the selector state of the peer manager.

new_manager(kind) ==
  [kind |-> kind, buf |-> <<>>, paths |-> EmptyMap, active_sender |-> null]

new_path(hdl, pending) ==
  [hdl |-> hdl, filter |-> <<null, {}>>, cache |-> <<>>, credit |-> 0,
   pending |-> pending, closing |-> FALSE]

\* push(element): append to the central buffer.
bm_push(m, x) == [m EXCEPT !.buf = Append(@, x)]

\* fan_out_flush(): move the central buffer to the caches of the paths
\* the selector accepts, then clear it.
fan_out_flush(m) ==
  [m EXCEPT
     !.paths = [s \in DOMAIN m.paths |->
                  IF m.paths[s].closing THEN m.paths[s]
                  ELSE [m.paths[s] EXCEPT
                          !.cache = @ \o SelectTopics(m, m.paths[s].filter, m.buf)]],
     !.buf = <<>>]

\* outbound_path::emit_batches: ship what the credit allows, unless the
\* handshake of the path is still pending.
path_emit_count(p) == IF p.pending THEN 0 ELSE Min(p.credit, Len(p.cache))

path_after_emit(p) ==
  LET k == path_emit_count(p)
  IN [p EXCEPT !.cache = SubSeq(@, k + 1, Len(@)), !.credit = @ - k]

\* The batches one emit_batches call ships, as [to, slot, xs] records in
\* slot order.
RECURSIVE emitted(_, _)
emitted(paths, slots) ==
  IF slots = <<>> THEN <<>>
  ELSE LET s == Head(slots)
           k == path_emit_count(paths[s])
       IN (IF k = 0 THEN <<>>
           ELSE <<[to |-> paths[s].hdl, slot |-> s,
                   xs |-> SubSeq(paths[s].cache, 1, k)]>>)
          \o emitted(paths, Tail(slots))

\* emit_batches(): take from the central buffer the chunk every open path
\* has room for, fan it out under the current selector state, and emit on
\* every path.  Returns [m, out].
emit_batches(m) ==
  IF DOMAIN m.paths = {} THEN [m |-> m, out |-> <<>>]
  ELSE
    LET open == {s \in DOMAIN m.paths : ~m.paths[s].closing}
        room(s) == IF m.paths[s].credit > Len(m.paths[s].cache)
                   THEN m.paths[s].credit - Len(m.paths[s].cache) ELSE 0
        chunk_size == IF open = {} THEN 0
                      ELSE CHOOSE r \in {room(s) : s \in open} :
                             \A s \in open : r <= room(s)
        n == Min(chunk_size, Len(m.buf))
        chunk == SubSeq(m.buf, 1, n)
        filled == [s \in DOMAIN m.paths |->
                     IF m.paths[s].closing THEN m.paths[s]
                     ELSE [m.paths[s] EXCEPT
                             !.cache = @ \o SelectTopics(m, m.paths[s].filter, chunk)]]
        after == [s \in DOMAIN filled |-> path_after_emit(filled[s])]
        \* a closing path goes away once its cache is shipped
        kept == {s \in DOMAIN after : ~(after[s].closing /\ after[s].cache = <<>>)}
    IN [m |-> [m EXCEPT !.buf = SubSeq(@, n + 1, Len(@)),
                        !.paths = [s \in kept |-> after[s]]],
        out |-> emitted(filled, SortedSeq(DOMAIN filled))]

\* set_filter(slot, filter)
set_filter(m, slot, f) ==
  IF slot \in DOMAIN m.paths
  THEN [m EXCEPT !.paths[slot].filter = f]
  ELSE m

\* remove_path(slot, reason, silent) on one nested manager.
bm_remove_path(m, slot) == [m EXCEPT !.paths = MapErase(@, slot)]

\* close(slot): a path with nothing cached goes away at once, another one
\* is marked closing.
bm_close(m, slot) ==
  IF slot \notin DOMAIN m.paths THEN m
  ELSE IF m.paths[slot].cache = <<>> THEN bm_remove_path(m, slot)
  ELSE [m EXCEPT !.paths[slot].closing = TRUE]

num_paths(m) == Cardinality(DOMAIN m.paths)

\* ------------------------------------------------------------------------
\* State
\* ------------------------------------------------------------------------

VARIABLES
  hdl_to_ostream_,      \* per endpoint: peer handle -> output slot
  ostream_to_peer_,     \* per endpoint: output slot -> peer handle
  hdl_to_istream_,      \* per endpoint: peer handle -> input slot
  istream_to_hdl_,      \* per endpoint: input slot -> peer handle
  pending_connections_, \* per endpoint: peer handle -> [slot, rp]
  blocked_peers,        \* per endpoint: set of blocked peer handles
  blocked_msgs,         \* per endpoint: peer handle -> buffered batches
  out_,                 \* per endpoint: fused manager [peer, worker, store]
  inbound_paths_,       \* per endpoint: input slot -> [hdl, remote]
  options,              \* per endpoint: [forward, ttl]
  filter,               \* per endpoint: own subscription filter
  shutting_down,        \* per endpoint: shutdown was requested
  quit,                 \* per endpoint: the actor called quit()
  events,               \* what the last handler run emitted (callbacks, logs)
  net,                  \* <<from, to>> -> actor/stream messages in flight
  mailbox,              \* per endpoint: elements shipped to local subscribers
  promises,             \* response promise -> values delivered on it
  next_batch,           \* arrival number of the next inbound message
  published,            \* number of local publishes so far
  peers_modelled,       \* the peers are endpoints of the model (else: environment)
  stores,               \* per endpoint: the store actor [role, backend, taken]
  flare                 \* the wake/notify pipe and the threads that use it

endpoint_vars ==
  <<hdl_to_ostream_, ostream_to_peer_, hdl_to_istream_, istream_to_hdl_,
    pending_connections_, blocked_peers, blocked_msgs, out_, inbound_paths_,
    options, filter, shutting_down, quit, events, net, mailbox, promises,
    next_batch, published, peers_modelled, stores>>

vars == <<endpoint_vars, flare>>

\* The state of endpoint n as one record, the form the handlers work on.
\* events, sent and delivered collect what one handler run produces.
State(n) ==
  [self |-> n,
   hdl_to_ostream_ |-> hdl_to_ostream_[n],
   ostream_to_peer_ |-> ostream_to_peer_[n],
   hdl_to_istream_ |-> hdl_to_istream_[n],
   istream_to_hdl_ |-> istream_to_hdl_[n],
   pending_connections_ |-> pending_connections_[n],
   blocked_peers |-> blocked_peers[n],
   blocked_msgs |-> blocked_msgs[n],
   out_ |-> out_[n],
   inbound_paths_ |-> inbound_paths_[n],
   options |-> options[n],
   filter |-> filter[n],
   shutting_down |-> shutting_down[n],
   quit |-> quit[n],
   promises |-> promises,
   events |-> <<>>,
   sent |-> <<>>]

\* One logged callback, log line or library call of a handler run.
Ev(ev, hdl, reason, seq) == [ev |-> ev, hdl |-> hdl, reason |-> reason, seq |-> seq]

Log(S, e) == [S EXCEPT !.events = Append(@, e)]

\* One message on the wire.
Wire(type, from, f, slot, xs) ==
  [type |-> type, from |-> from, filter |-> f, slot |-> slot, xs |-> xs]

Send(S, to, w) == [S EXCEPT !.sent = Append(@, [to |-> to, msg |-> w])]

\* Ships the batches of one emit_batches call.
RECURSIVE SendBatches(_, _)
SendBatches(S, out) ==
  IF out = <<>> THEN S
  ELSE SendBatches(
         Send(S, Head(out).to,
              Wire("batch", S.self, {}, Head(out).slot, Head(out).xs)),
         Tail(out))

\* The slots this stream manager has in use, and the slot the next path
\* gets (one more than the largest in use).
used_slots(S) ==
  DOMAIN S.inbound_paths_ \cup DOMAIN S.out_.peer.paths
    \cup DOMAIN S.out_.worker.paths \cup DOMAIN S.out_.store.paths

next_slot(S) == SetMax(used_slots(S)) + 1

\* peer_manager(), worker_manager(), store_manager() updates
with_peer(S, m) == [S EXCEPT !.out_.peer = m]

with_worker(S, m) == [S EXCEPT !.out_.worker = m]

with_store(S, m) == [S EXCEPT !.out_.store = m]

\* stream_manager::push(): emit_batches on the fused manager, i.e. on each
\* nested manager.
push(S) ==
  LET p == emit_batches(S.out_.peer)
      w == emit_batches(S.out_.worker)
      st == emit_batches(S.out_.store)
      S1 == [S EXCEPT !.out_ = [peer |-> p.m, worker |-> w.m, store |-> st.m]]
  IN SendBatches(SendBatches(SendBatches(S1, p.out), w.out), st.out)

\* out().remove_path(slot, reason, silent): the fused manager drops the
\* path from the nested manager that owns it; unless silent, the remote
\* side is told (close without a reason, forced_close with one).
out_remove_path(S, slot, reason, silent) ==
  LET owners == {k \in {"peer", "worker", "store"} : slot \in DOMAIN S.out_[k].paths}
      S1 == [S EXCEPT !.out_ = [k \in {"peer", "worker", "store"} |->
                                  bm_remove_path(S.out_[k], slot)]]
  IN IF owners = {} \/ silent THEN S1
     ELSE LET k == CHOOSE x \in owners : TRUE
          IN Send(S1, S.out_[k].paths[slot].hdl,
                  Wire(IF reason = "none" THEN "close" ELSE "forced_close",
                       S.self, {}, slot, <<>>))

\* remove_input_path(slot, reason, silent): drops the inbound path; unless
\* silent, the source is told (drop without a reason, forced_drop with one).
remove_input_path(S, slot, reason, silent) ==
  LET S1 == [S EXCEPT !.inbound_paths_ = MapErase(@, slot)]
  IN IF slot \notin DOMAIN S.inbound_paths_ \/ silent THEN S1
     ELSE Send(S1, S.inbound_paths_[slot].hdl,
               Wire(IF reason = "none" THEN "drop" ELSE "forced_drop",
                    S.self, {}, S.inbound_paths_[slot].remote, <<>>))

\* ------------------------------------------------------------------------
\* Path table
\* ------------------------------------------------------------------------

\* Queries whether hdl is a known peer.
connected_to(S, hdl) ==
  hdl \in DOMAIN S.hdl_to_ostream_ \/ hdl \in DOMAIN S.hdl_to_istream_

\* add_ipath that forgets the reverse map.
add_ipath_unpaired(S, slot, peer_hdl) ==
  [S EXCEPT !.hdl_to_istream_ = MapEmplace(@, peer_hdl, slot)]

\* Adds entries to hdl_to_istream_ and istream_to_hdl_.
add_ipath(S, slot, peer_hdl) ==
  IF slot = invalid_stream_slot
  THEN Log(S, Ev("error", peer_hdl, "tried to add an invalid inbound path", 0))
  ELSE IF slot \in DOMAIN S.istream_to_hdl_
  THEN Log(S, Ev("error", peer_hdl, "ipath_to_peer entry already exists", 0))
  ELSE LET S1 == [S EXCEPT !.istream_to_hdl_ = MapEmplace(@, slot, peer_hdl)]
       IN IF peer_hdl \in DOMAIN S1.hdl_to_istream_
          THEN Log(S1, Ev("error", peer_hdl, "peer_to_ipath entry already exists", 0))
          ELSE [S1 EXCEPT !.hdl_to_istream_ = MapEmplace(@, peer_hdl, slot)]

\* Adds entries to hdl_to_ostream_ and ostream_to_peer_.
add_opath(S, slot, peer_hdl) ==
  IF slot = invalid_stream_slot
  THEN Log(S, Ev("error", peer_hdl, "tried to add an invalid outbound path", 0))
  ELSE IF slot \in DOMAIN S.ostream_to_peer_
  THEN Log(S, Ev("error", peer_hdl, "opath_to_peer entry already exists", 0))
  ELSE LET S1 == [S EXCEPT !.ostream_to_peer_ = MapEmplace(@, slot, peer_hdl)]
       IN IF peer_hdl \in DOMAIN S1.hdl_to_ostream_
          THEN Log(S1, Ev("error", peer_hdl, "peer_to_opath entry already exists", 0))
          ELSE [S1 EXCEPT !.hdl_to_ostream_ = MapEmplace(@, peer_hdl, slot)]

\* remove_peer that reports every removal as a disconnect, graceful or not.
remove_peer_ungraceful(S, hdl, reason, silent, graceful_removal) ==
  LET has_o == hdl \in DOMAIN S.hdl_to_ostream_
      S1 == IF has_o
            THEN LET slot == S.hdl_to_ostream_[hdl]
                     R == out_remove_path(S, slot, reason, silent)
                 IN [R EXCEPT !.ostream_to_peer_ = MapErase(@, slot),
                              !.hdl_to_ostream_ = MapErase(@, hdl)]
            ELSE S
      has_i == hdl \in DOMAIN S1.hdl_to_istream_
      S2 == IF has_i
            THEN LET slot == S1.hdl_to_istream_[hdl]
                     R == remove_input_path(S1, slot, reason, silent)
                 IN [R EXCEPT !.istream_to_hdl_ = MapErase(@, slot),
                              !.hdl_to_istream_ = MapErase(@, hdl)]
            ELSE S1
      S3 == Log(Log(S2, Ev("peer_disconnected", hdl, reason, 0)),
                Ev("cache_remove", hdl, "none", 0))
  IN IF ~has_o /\ ~has_i
     THEN [s |-> Log(S, Ev("debug", hdl, "no path was removed for peer", 0)),
           r |-> FALSE]
     ELSE IF S3.shutting_down /\ DOMAIN S3.hdl_to_ostream_ = {}
     THEN [s |-> [Log(S3, Ev("quit", hdl, "user_shutdown", 0)) EXCEPT !.quit = TRUE],
           r |-> TRUE]
     ELSE [s |-> push(Log(S3, Ev("push", hdl, "none", 0))), r |-> TRUE]

\* remove_peer that erases the table entries of the outbound half but
\* leaves the path in the fan-out.
remove_peer_path_kept(S, hdl, reason, silent, graceful_removal) ==
  LET has_o == hdl \in DOMAIN S.hdl_to_ostream_
      S1 == IF has_o
            THEN [S EXCEPT !.ostream_to_peer_ = MapErase(@, S.hdl_to_ostream_[hdl]),
                           !.hdl_to_ostream_ = MapErase(@, hdl)]
            ELSE S
      has_i == hdl \in DOMAIN S1.hdl_to_istream_
      S2 == IF has_i
            THEN LET slot == S1.hdl_to_istream_[hdl]
                     R == remove_input_path(S1, slot, reason, silent)
                 IN [R EXCEPT !.istream_to_hdl_ = MapErase(@, slot),
                              !.hdl_to_istream_ = MapErase(@, hdl)]
            ELSE S1
      S2c == IF graceful_removal
             THEN Log(S2, Ev("peer_removed", hdl, "none", 0))
             ELSE Log(S2, Ev("peer_disconnected", hdl, reason, 0))
      S3 == Log(S2c, Ev("cache_remove", hdl, "none", 0))
  IN IF ~has_o /\ ~has_i
     THEN [s |-> Log(S, Ev("debug", hdl, "no path was removed for peer", 0)),
           r |-> FALSE]
     ELSE IF S3.shutting_down /\ DOMAIN S3.hdl_to_ostream_ = {}
     THEN [s |-> [Log(S3, Ev("quit", hdl, "user_shutdown", 0)) EXCEPT !.quit = TRUE],
           r |-> TRUE]
     ELSE [s |-> push(Log(S3, Ev("push", hdl, "none", 0))), r |-> TRUE]

\* remove_peer that quits on the first removal after shutdown was
\* requested, whatever paths remain.
remove_peer_quit_early(S, hdl, reason, silent, graceful_removal) ==
  LET has_o == hdl \in DOMAIN S.hdl_to_ostream_
      S1 == IF has_o
            THEN LET slot == S.hdl_to_ostream_[hdl]
                     R == out_remove_path(S, slot, reason, silent)
                 IN [R EXCEPT !.ostream_to_peer_ = MapErase(@, slot),
                              !.hdl_to_ostream_ = MapErase(@, hdl)]
            ELSE S
      has_i == hdl \in DOMAIN S1.hdl_to_istream_
      S2 == IF has_i
            THEN LET slot == S1.hdl_to_istream_[hdl]
                     R == remove_input_path(S1, slot, reason, silent)
                 IN [R EXCEPT !.istream_to_hdl_ = MapErase(@, slot),
                              !.hdl_to_istream_ = MapErase(@, hdl)]
            ELSE S1
      performed_erases == (IF has_o THEN 1 ELSE 0) + (IF has_i THEN 1 ELSE 0)
      S2c == IF graceful_removal
             THEN Log(S2, Ev("peer_removed", hdl, "none", 0))
             ELSE Log(S2, Ev("peer_disconnected", hdl, reason, 0))
      S3 == Log(S2c, Ev("cache_remove", hdl, "none", 0))
  IN IF performed_erases = 0
     THEN [s |-> Log(S, Ev("debug", hdl, "no path was removed for peer", 0)),
           r |-> FALSE]
     ELSE IF S3.shutting_down
     THEN [s |-> [Log(S3, Ev("quit", hdl, "user_shutdown", 0)) EXCEPT !.quit = TRUE],
           r |-> TRUE]
     ELSE [s |-> push(Log(S3, Ev("push", hdl, "none", 0))), r |-> TRUE]

\* Removes a peer, aborting any stream to and from that peer.  Returns
\* [s, r]: the state after the call and the value returned.
remove_peer(S, hdl, reason, silent, graceful_removal) ==
  LET has_o == hdl \in DOMAIN S.hdl_to_ostream_
      S1 == IF has_o
            THEN LET slot == S.hdl_to_ostream_[hdl]
                     R == out_remove_path(S, slot, reason, silent)
                 IN [R EXCEPT !.ostream_to_peer_ = MapErase(@, slot),
                              !.hdl_to_ostream_ = MapErase(@, hdl)]
            ELSE S
      has_i == hdl \in DOMAIN S1.hdl_to_istream_
      S2 == IF has_i
            THEN LET slot == S1.hdl_to_istream_[hdl]
                     R == remove_input_path(S1, slot, reason, silent)
                 IN [R EXCEPT !.istream_to_hdl_ = MapErase(@, slot),
                              !.hdl_to_istream_ = MapErase(@, hdl)]
            ELSE S1
      performed_erases == (IF has_o THEN 1 ELSE 0) + (IF has_i THEN 1 ELSE 0)
      S2c == IF graceful_removal
             THEN Log(S2, Ev("peer_removed", hdl, "none", 0))
             ELSE Log(S2, Ev("peer_disconnected", hdl, reason, 0))
      S3 == Log(S2c, Ev("cache_remove", hdl, "none", 0))
  IN IF performed_erases = 0
     THEN [s |-> Log(S, Ev("debug", hdl, "no path was removed for peer", 0)),
           r |-> FALSE]
     ELSE IF S3.shutting_down /\ DOMAIN S3.hdl_to_ostream_ = {}
     THEN [s |-> [Log(S3, Ev("quit", hdl, "user_shutdown", 0)) EXCEPT !.quit = TRUE],
           r |-> TRUE]
     ELSE [s |-> push(Log(S3, Ev("push", hdl, "none", 0))), r |-> TRUE]

\* Path slot in xs was dropped or closed: looks up the peer of the slot
\* and removes that peer (both directions).
remove_cb(S, slot, xs, reason) ==
  IF slot \notin DOMAIN xs
  THEN Log(S, Ev("debug", null, "no entry in xs found for slot", 0))
  ELSE remove_peer(S, xs[slot], reason, TRUE, FALSE).s

\* ------------------------------------------------------------------------
\* Selectively pushing data into the streams
\* ------------------------------------------------------------------------

\* remote_push that hands the message to every peer path, whatever its
\* filter.
remote_push_unfiltered(S, msg) ==
  SendBatches(S, [i \in 1..Len(SortedSeq(DOMAIN S.out_.peer.paths)) |->
                    [to |-> S.out_.peer.paths[SortedSeq(DOMAIN S.out_.peer.paths)[i]].hdl,
                     slot |-> SortedSeq(DOMAIN S.out_.peer.paths)[i],
                     xs |-> <<msg>>]])

\* remote_push that puts the message in front of what the central buffer
\* holds.
remote_push_front(S, msg) ==
  LET r == emit_batches([S.out_.peer EXCEPT !.buf = <<msg>> \o @])
  IN SendBatches(with_peer(S, r.m), r.out)

\* Pushes data to peers only without forwarding it to local substreams.
remote_push(S, msg) ==
  LET r == emit_batches(bm_push(S.out_.peer, msg))
  IN SendBatches(with_peer(S, r.m), r.out)

\* local_push that hands the element to a path only if the path can take
\* it right away.
local_push_unbuffered(S, x) ==
  LET k == IF x.kind = "data" THEN "worker" ELSE "store"
      r == emit_batches(bm_push(S.out_[k], x))
  IN SendBatches([S EXCEPT !.out_[k] = [r.m EXCEPT !.buf = <<>>]], r.out)

\* Pushes data to workers / stores without forwarding it to peers.
local_push(S, x) ==
  IF x.kind = "data"
  THEN IF num_paths(S.out_.worker) > 0
       THEN LET r == emit_batches(bm_push(S.out_.worker, x))
            IN SendBatches(with_worker(S, r.m), r.out)
       ELSE S
  ELSE IF num_paths(S.out_.store) > 0
       THEN LET r == emit_batches(bm_push(S.out_.store, x))
            IN SendBatches(with_store(S, r.m), r.out)
       ELSE S

\* push(data_message) / push(command_message): wraps the content into a
\* node message with the configured TTL and pushes it to the peers.
push_content(S, x) == remote_push(S, make_node_message(x, S.options.ttl))

\* publish(T msg) -> ship(msg) -> push(msg)
publish(S, x) == push_content(S, x)

\* publish(node_message) -> ship(message_type&) -> push(message_type)
publish_node_message(S, msg) == remote_push(S, msg)

\* ------------------------------------------------------------------------
\* Inbound batches
\* ------------------------------------------------------------------------
\* A batch is [type, seq, xs]: type names the element type of the
\* caf::message ("peer", "worker", "store", "var" or anything else), seq is
\* the arrival number the transport gave it, xs the elements.

Batch(type, seq, xs) == [type |-> type, seq |-> seq, xs |-> xs]

\* --msg.ttl on a uint16_t
dec_ttl(t) == (t - 1) % TTLMod

\* The loop body without the check for the clone suffix.
handle_peer_message_forward_clone(S, msg, num_workers, num_stores) ==
  LET S1 == IF is_data_message(msg)
            THEN IF num_workers > 0
                 THEN with_worker(S, bm_push(S.out_.worker, get_content(msg)))
                 ELSE S
            ELSE IF num_stores > 0
                 THEN with_store(S, bm_push(S.out_.store, get_content(msg)))
                 ELSE S
      t == dec_ttl(msg.ttl)
  IN IF ~S.options.forward THEN S1
     ELSE IF t = 0
     THEN Log(S1, Ev("warning", null, "dropped a message with expired TTL", msg.id))
     ELSE publish_node_message(
            Log(S1, Ev("forward", null, "none", msg.id)),
            [msg EXCEPT !.ttl = t, !.hops = @ + 1])

\* The loop body without the check of the forward option.
handle_peer_message_always_forward(S, msg, num_workers, num_stores) ==
  LET S1 == IF is_data_message(msg)
            THEN IF num_workers > 0
                 THEN with_worker(S, bm_push(S.out_.worker, get_content(msg)))
                 ELSE S
            ELSE IF num_stores > 0
                 THEN with_store(S, bm_push(S.out_.store, get_content(msg)))
                 ELSE S
      t == dec_ttl(msg.ttl)
  IN IF ends_with(msg.topic, clone_suffix) THEN S1
     ELSE IF t = 0
     THEN Log(S1, Ev("warning", null, "dropped a message with expired TTL", msg.id))
     ELSE publish_node_message(
            Log(S1, Ev("forward", null, "none", msg.id)),
            [msg EXCEPT !.ttl = t, !.hops = @ + 1])

\* The loop body that looks at the TTL before it dispatches the message
\* locally: an expired message reaches nobody.
handle_peer_message_ttl_first(S, msg, num_workers, num_stores) ==
  LET S1 == IF is_data_message(msg)
            THEN IF num_workers > 0
                 THEN with_worker(S, bm_push(S.out_.worker, get_content(msg)))
                 ELSE S
            ELSE IF num_stores > 0
                 THEN with_store(S, bm_push(S.out_.store, get_content(msg)))
                 ELSE S
      t == dec_ttl(msg.ttl)
  IN IF t = 0
     THEN Log(S, Ev("warning", null, "dropped a message with expired TTL", msg.id))
     ELSE IF ~S.options.forward THEN S1
     ELSE IF ends_with(msg.topic, clone_suffix) THEN S1
     ELSE publish_node_message(
            Log(S1, Ev("forward", null, "none", msg.id)),
            [msg EXCEPT !.ttl = t, !.hops = @ + 1])

\* One iteration of the loop over a peer batch.
handle_peer_message(S, msg, num_workers, num_stores) ==
  LET S1 == IF is_data_message(msg)
            THEN IF num_workers > 0
                 THEN with_worker(S, bm_push(S.out_.worker, get_content(msg)))
                 ELSE S
            ELSE IF num_stores > 0
                 THEN with_store(S, bm_push(S.out_.store, get_content(msg)))
                 ELSE S
      t == dec_ttl(msg.ttl)
  IN IF ~S.options.forward THEN S1
     ELSE IF ends_with(msg.topic, clone_suffix) THEN S1
     ELSE IF t = 0
     THEN Log(S1, Ev("warning", null, "dropped a message with expired TTL", msg.id))
     ELSE publish_node_message(
            Log(S1, Ev("forward", null, "none", msg.id)),
            [msg EXCEPT !.ttl = t, !.hops = @ + 1])

RECURSIVE handle_peer_batch(_, _, _, _)
handle_peer_batch(S, xs, num_workers, num_stores) ==
  IF xs = <<>> THEN S
  ELSE handle_peer_batch(
         handle_peer_message(S, Head(xs), num_workers, num_stores),
         Tail(xs), num_workers, num_stores)

\* try_publish: republishes every element of a local batch.
RECURSIVE publish_all(_, _)
publish_all(S, xs) ==
  IF xs = <<>> THEN S ELSE publish_all(publish(S, Head(xs)), Tail(xs))

\* handle_batch_body that buffers a batch of a blocked peer and handles
\* it all the same.
handle_batch_body_unblocked(S, hdl, b) ==
  IF b.type = "peer"
  THEN LET S1 == IF hdl \in S.blocked_peers
                 THEN [Log(S, Ev("buffer", hdl, "buffer batch from blocked peer", b.seq))
                         EXCEPT !.blocked_msgs =
                           MapSet(@, hdl,
                                  IF hdl \in DOMAIN @ THEN Append(@[hdl], b) ELSE <<b>>)]
                 ELSE Log(S, Ev("handle_batch", hdl, "peer", b.seq))
       IN handle_peer_batch(S1, b.xs, num_paths(S.out_.worker),
                            num_paths(S.out_.store))
  ELSE IF b.type \in {"worker", "store", "var"}
  THEN publish_all(Log(S, Ev("handle_batch", hdl, b.type, b.seq)), b.xs)
  ELSE Log(S, Ev("error", hdl, "unexpected batch", b.seq))

\* The part of handle_batch between installing and running the scope
\* guard.
handle_batch_body(S, hdl, b) ==
  IF b.type = "peer"
  THEN IF hdl \in S.blocked_peers
       THEN [Log(S, Ev("buffer", hdl, "buffer batch from blocked peer", b.seq))
               EXCEPT !.blocked_msgs =
                 MapSet(@, hdl,
                        IF hdl \in DOMAIN @ THEN Append(@[hdl], b) ELSE <<b>>)]
       ELSE handle_peer_batch(Log(S, Ev("handle_batch", hdl, "peer", b.seq)),
                              b.xs, num_paths(S.out_.worker),
                              num_paths(S.out_.store))
  ELSE IF b.type \in {"worker", "store", "var"}
  THEN publish_all(Log(S, Ev("handle_batch", hdl, b.type, b.seq)), b.xs)
  ELSE Log(S, Ev("error", hdl, "unexpected batch", b.seq))

\* handle_batch whose scope guard clears the active sender before it
\* flushes.
handle_batch_unscoped(S, hdl, b) ==
  LET S1 == with_peer(S, [fan_out_flush(S.out_.peer)
                            EXCEPT !.active_sender = address(hdl)])
      S2 == handle_batch_body(S1, hdl, b)
  IN with_peer(S2, fan_out_flush([S2.out_.peer EXCEPT !.active_sender = null]))

\* handle_batch without the scope guard: the return of the blocked branch
\* leaves the active sender installed.
handle_batch_unguarded(S, hdl, b) ==
  LET S0 == IF S.out_.peer.active_sender # null
            THEN Log(S, Ev("assert", hdl, "active_sender == nullptr", b.seq))
            ELSE S
      S1 == with_peer(S0, [fan_out_flush(S0.out_.peer)
                             EXCEPT !.active_sender = address(hdl)])
      S2 == handle_batch_body(S1, hdl, b)
  IN IF b.type = "peer" /\ hdl \in S.blocked_peers THEN S2
     ELSE with_peer(S2, [fan_out_flush(S2.out_.peer) EXCEPT !.active_sender = null])

\* handle_batch(hdl, xs): flush what was produced locally, install hdl as
\* the active sender, handle the batch, and on scope exit flush again
\* before the active sender is cleared.
handle_batch(S, hdl, b) ==
  LET S0 == IF S.out_.peer.active_sender # null
            THEN Log(S, Ev("assert", hdl, "active_sender == nullptr", b.seq))
            ELSE S
      S1 == with_peer(S0, [fan_out_flush(S0.out_.peer)
                             EXCEPT !.active_sender = address(hdl)])
      S2 == handle_batch_body(S1, hdl, b)
  IN with_peer(S2, [fan_out_flush(S2.out_.peer) EXCEPT !.active_sender = null])

\* ------------------------------------------------------------------------
\* Peer management
\* ------------------------------------------------------------------------

\* Block peer messages from being handled.
block_peer(S, peer) == [S EXCEPT !.blocked_peers = @ \cup {peer}]

\* The replay loop running from the newest batch to the oldest.
RECURSIVE replay_reversed(_, _, _)
replay_reversed(S, peer, batches) ==
  IF batches = <<>> THEN S
  ELSE LET b == batches[Len(batches)]
       IN replay_reversed(
            handle_batch(Log(S, Ev("debug", peer, "handle blocked batch", b.seq)),
                         peer, b),
            peer, SubSeq(batches, 1, Len(batches) - 1))

\* The loop of unblock_peer over the buffered batches.
RECURSIVE replay(_, _, _)
replay(S, peer, batches) ==
  IF batches = <<>> THEN S
  ELSE replay(handle_batch(Log(S, Ev("debug", peer, "handle blocked batch",
                                     Head(batches).seq)),
                           peer, Head(batches)),
              peer, Tail(batches))

\* unblock_peer that flushes the central buffer of the peer manager even
\* when there is nothing to replay.
unblock_peer_flushing(S, peer) ==
  LET S1 == [S EXCEPT !.blocked_peers = @ \ {peer}]
  IN IF peer \notin DOMAIN S1.blocked_msgs
     THEN with_peer(S1, fan_out_flush(S1.out_.peer))
     ELSE IF peer \notin DOMAIN S1.hdl_to_istream_
     THEN [Log(S1, Ev("debug", peer, "dropped batches after unblocking peer", 0))
             EXCEPT !.blocked_msgs = MapErase(@, peer)]
     ELSE [replay(S1, peer, S1.blocked_msgs[peer])
             EXCEPT !.blocked_msgs = MapErase(@, peer)]

\* unblock_peer that keeps the buffered batches of a peer whose inbound
\* path is gone.
unblock_peer_keeping(S, peer) ==
  LET S1 == [S EXCEPT !.blocked_peers = @ \ {peer}]
  IN IF peer \notin DOMAIN S1.blocked_msgs THEN S1
     ELSE IF peer \notin DOMAIN S1.hdl_to_istream_
     THEN Log(S1, Ev("debug", peer, "dropped batches after unblocking peer", 0))
     ELSE [replay(S1, peer, S1.blocked_msgs[peer])
             EXCEPT !.blocked_msgs = MapErase(@, peer)]

\* unblock_peer that replays the buffered batches without looking for the
\* inbound path of the peer.
unblock_peer_replaying(S, peer) ==
  LET S1 == [S EXCEPT !.blocked_peers = @ \ {peer}]
  IN IF peer \notin DOMAIN S1.blocked_msgs THEN S1
     ELSE [replay(S1, peer, S1.blocked_msgs[peer])
             EXCEPT !.blocked_msgs = MapErase(@, peer)]

\* Unblock peer messages and flush any buffered messages immediately.
unblock_peer(S, peer) ==
  LET S1 == [S EXCEPT !.blocked_peers = @ \ {peer}]
  IN IF peer \notin DOMAIN S1.blocked_msgs THEN S1
     ELSE IF peer \notin DOMAIN S1.hdl_to_istream_
     THEN [Log(S1, Ev("debug", peer, "dropped batches after unblocking peer", 0))
             EXCEPT !.blocked_msgs = MapErase(@, peer)]
     ELSE [replay(S1, peer, S1.blocked_msgs[peer])
             EXCEPT !.blocked_msgs = MapErase(@, peer)]

\* unpeer(peer_id, hdl): disconnects a peer by demand of the user.
unpeer_id(S, hdl) ==
  LET r == remove_peer(S, hdl, "none", FALSE, TRUE)
  IN IF ~r.r THEN Log(r.s, Ev("cannot_remove_peer", hdl, "none", 0)) ELSE r.s

\* unpeer(hdl)
unpeer(S, hdl) == IF hdl = null THEN S ELSE unpeer_id(S, hdl)

\* add(send_own_filter, hdl): add_unchecked_outbound_path with the
\* handshake (filter, self) or (ok, self).  Returns [s, slot]; the new
\* path is not assigned to a nested manager yet.
add(S, send_own_filter, hdl) ==
  IF hdl = null THEN [s |-> S, slot |-> invalid_stream_slot]
  ELSE LET slot == next_slot(S)
       IN [s |-> Send(S, hdl,
                      Wire(IF send_own_filter THEN "open_stream_filter"
                           ELSE "open_stream_ok",
                           S.self, IF send_own_filter THEN S.filter ELSE {},
                           slot, <<>>)),
           slot |-> slot]

\* out().assign<Manager>(slot): hands the new path to a nested manager.
assign(m, slot, hdl) ==
  IF slot = invalid_stream_slot THEN m
  ELSE [m EXCEPT !.paths = MapEmplace(@, slot, new_path(hdl, TRUE))]

\* start_handshake that stores the endpoint's own filter for the path.
start_handshake_own_filter(S, send_own_filter, peer_hdl, peer_filter) ==
  IF peer_hdl \in DOMAIN S.hdl_to_ostream_
  THEN [s |-> Log(S, Ev("error", peer_hdl, "peer already connected", 0)),
        slot |-> invalid_stream_slot]
  ELSE LET a == add(S, send_own_filter, peer_hdl)
           S1 == with_peer(a.s, set_filter(assign(a.s.out_.peer, a.slot, peer_hdl),
                                           a.slot,
                                           <<address(peer_hdl), S.filter>>))
       IN [s |-> add_opath(S1, a.slot, peer_hdl), slot |-> a.slot]

\* start_handshake that does not look for an outbound path to the peer.
start_handshake_unchecked(S, send_own_filter, peer_hdl, peer_filter) ==
  LET a == add(S, send_own_filter, peer_hdl)
      S1 == with_peer(a.s, set_filter(assign(a.s.out_.peer, a.slot, peer_hdl),
                                      a.slot,
                                      <<address(peer_hdl), peer_filter>>))
  IN [s |-> add_opath(S1, a.slot, peer_hdl), slot |-> a.slot]

\* start_handshake<SendOwnFilter>(peer_hdl, peer_filter).  Returns
\* [s, slot].
start_handshake(S, send_own_filter, peer_hdl, peer_filter) ==
  IF peer_hdl \in DOMAIN S.hdl_to_ostream_
  THEN [s |-> Log(S, Ev("error", peer_hdl, "peer already connected", 0)),
        slot |-> invalid_stream_slot]
  ELSE LET a == add(S, send_own_filter, peer_hdl)
           S1 == with_peer(a.s, set_filter(assign(a.s.out_.peer, a.slot, peer_hdl),
                                           a.slot,
                                           <<address(peer_hdl), peer_filter>>))
       IN [s |-> add_opath(S1, a.slot, peer_hdl), slot |-> a.slot]

\* rp.deliver(value)
deliver(S, rp, value) == [S EXCEPT !.promises[rp] = Append(@, value)]

\* start_peering that ignores repeated requests only while the first one
\* is pending.
start_peering_pending_only(S, remote_peer, rp) ==
  LET T == Log(S, Ev("trace", remote_peer, "start_peering", 0))
  IN IF remote_peer = null THEN deliver(T, rp, "invalid_argument")
     ELSE IF remote_peer \in DOMAIN T.pending_connections_
     THEN deliver(T, rp, "unit")
     ELSE LET S1 == [T EXCEPT !.pending_connections_ =
                        MapSet(@, remote_peer, [slot |-> 0, rp |-> rp])]
              S2 == Send(S1, remote_peer, Wire("peer", S.self, S.filter, 0, <<>>))
          IN Log(S2, Ev("monitor", remote_peer, "none", 0))

\* start_peering without the sanity check of the remote handle.
start_peering_unchecked(S, remote_peer, rp) ==
  LET T == Log(S, Ev("trace", remote_peer, "start_peering", 0))
  IN IF remote_peer \in DOMAIN T.pending_connections_
        \/ connected_to(T, remote_peer)
     THEN deliver(T, rp, "unit")
     ELSE LET S1 == [T EXCEPT !.pending_connections_ =
                        MapEmplace(@, remote_peer, [slot |-> 0, rp |-> rp])]
              S2 == Send(S1, remote_peer, Wire("peer", S.self, S.filter, 0, <<>>))
          IN Log(S2, Ev("monitor", remote_peer, "none", 0))

\* Initiates peering between this peer and remote_peer.
start_peering(S, remote_peer, rp) ==
  LET T == Log(S, Ev("trace", remote_peer, "start_peering", 0))
  IN IF remote_peer = null THEN deliver(T, rp, "invalid_argument")
     ELSE IF remote_peer \in DOMAIN T.pending_connections_
             \/ connected_to(T, remote_peer)
     THEN deliver(T, rp, "unit")
     ELSE LET S1 == [T EXCEPT !.pending_connections_ =
                        MapEmplace(@, remote_peer, [slot |-> 0, rp |-> rp])]
              S2 == Send(S1, remote_peer, Wire("peer", S.self, S.filter, 0, <<>>))
          IN Log(S2, Ev("monitor", remote_peer, "none", 0))

\* Acknowledges an incoming peering request: adds the inbound path of the
\* stream the peer opened from its slot `remote`.
ack_peering(S, remote, peer_hdl) ==
  IF peer_hdl \in DOMAIN S.hdl_to_istream_
  THEN Log(S, Ev("error", peer_hdl, "peer already connected", 0))
  ELSE LET slot == next_slot(S)
           S1 == [S EXCEPT !.inbound_paths_ =
                     MapEmplace(@, slot, [hdl |-> peer_hdl, remote |-> remote])]
           S2 == Send(S1, peer_hdl, Wire("ack_open", S.self, {}, remote, <<>>))
       IN add_ipath(S2, slot, peer_hdl)

\* Updates the filter of an existing peer.  Returns [s, r].
update_peer(S, hdl, f) ==
  IF hdl \notin DOMAIN S.hdl_to_ostream_
  THEN [s |-> Log(S, Ev("debug", hdl, "cannot update filter on unknown peer", 0)),
        r |-> FALSE]
  ELSE LET slot == S.hdl_to_ostream_[hdl]
       IN IF slot \in DOMAIN S.out_.peer.paths
          THEN [s |-> with_peer(S, [S.out_.peer EXCEPT !.paths[slot].filter[2] = f]),
                r |-> TRUE]
          ELSE [s |-> Log(S, Ev("error", hdl, "invalid slot", slot)), r |-> TRUE]

\* ------------------------------------------------------------------------
\* Streaming helper functions and stream events
\* ------------------------------------------------------------------------

\* ack_open_success(slot, rebind_from, rebind_to)
ack_open_success(S, slot, rebind_from, rebind_to) ==
  IF rebind_from # rebind_to
  THEN IF slot \in DOMAIN S.out_.peer.paths
       THEN with_peer(Log(S, Ev("debug", rebind_to, "rebind occurred", slot)),
                      [S.out_.peer EXCEPT !.paths[slot].filter[1] = rebind_to])
       ELSE Log(S, Ev("error", rebind_to, "invalid slot", slot))
  ELSE S

\* ack_open_failure(slot, rebind_from, rebind_to)
ack_open_failure(S, slot) ==
  IF slot \in DOMAIN S.ostream_to_peer_
  THEN remove_peer(S, S.ostream_to_peer_[slot], "invalid_stream_state", FALSE, FALSE).s
  ELSE S

\* The nested manager that owns an outbound slot ("none" if there is none).
owner(S, slot) ==
  IF slot \in DOMAIN S.out_.peer.paths THEN "peer"
  ELSE IF slot \in DOMAIN S.out_.worker.paths THEN "worker"
  ELSE IF slot \in DOMAIN S.out_.store.paths THEN "store"
  ELSE "none"

\* handle(slots, ack_open): the base class accepts the ack iff the slot
\* names an outbound path whose handshake is pending; the path then gets
\* its first credit.
handle_ack_open(S, slot, credit, rebind_from, rebind_to) ==
  LET k == owner(S, slot)
  IN IF k # "none" /\ S.out_[k].paths[slot].pending
     THEN ack_open_success(
            [S EXCEPT !.out_[k].paths[slot].pending = FALSE,
                      !.out_[k].paths[slot].credit = credit],
            slot, rebind_from, rebind_to)
     ELSE ack_open_failure(S, slot)

\* handle(path, close): the inbound path `slot` was closed by its source.
handle_close(S, slot) == remove_cb(S, slot, S.istream_to_hdl_, "none")

\* handle(path, forced_close)
handle_forced_close(S, slot, reason) == remove_cb(S, slot, S.istream_to_hdl_, reason)

\* handle(slots, drop): the base class closes the outbound path.
handle_drop(S, slot) ==
  [S EXCEPT !.out_ = [k \in {"peer", "worker", "store"} |-> bm_close(S.out_[k], slot)]]

\* handle(slots, forced_drop)
handle_forced_drop(S, slot, reason) ==
  IF owner(S, slot) # "none"
  THEN remove_cb(out_remove_path(S, slot, reason, TRUE), slot,
                 S.ostream_to_peer_, reason)
  ELSE S

\* handle(slots, ack_batch): new credit for an outbound path, then push().
handle_ack_batch(S, slot, credit) ==
  LET k == owner(S, slot)
  IN IF k = "none" THEN S
     ELSE push([S EXCEPT !.out_[k].paths[slot].credit = Min(@ + credit, MaxCredit)])

\* handle(path, batch): handle_batch, after which the stream manager
\* pushes.
handle_inbound_batch(S, hdl, b) == push(handle_batch(S, hdl, b))

\* ------------------------------------------------------------------------
\* done / idle
\* ------------------------------------------------------------------------

\* outbound_path::desired_batch_size, scaled down: a manager caches up to
\* two batches of this size.
DesiredBatchSize == 1

\* buffered(): the central buffer plus the longest path cache.
bm_buffered(m) ==
  Len(m.buf) + SetMax({Len(m.paths[s].cache) : s \in DOMAIN m.paths})

\* capacity(): what is left of two batches.
bm_capacity(m) ==
  IF 2 * DesiredBatchSize > bm_buffered(m)
  THEN 2 * DesiredBatchSize - bm_buffered(m) ELSE 0

\* out_.stalled(): the fused manager has no capacity left (the minimum
\* over its nested managers) and no path of any nested manager has credit.
out_stalled(o) ==
  /\ \E k \in {"peer", "worker", "store"} : bm_capacity(o[k]) = 0
  /\ \A k \in {"peer", "worker", "store"} : \A s \in DOMAIN o[k].paths :
       o[k].paths[s].credit = 0

\* out_.clean(): nothing is buffered and every path is clean (all its
\* batches are acknowledged: paths_clean, which the transport knows).
out_clean(o, paths_clean) ==
  /\ \A k \in {"peer", "worker", "store"} : bm_buffered(o[k]) = 0
  /\ paths_clean

\* idle() without the stalled case.
idle_unstalled(S, paths_clean, inbound_paths_idle) ==
  out_clean(S.out_, paths_clean) /\ inbound_paths_idle

\* idle(); inbound_paths_idle is the transport's view of the inbound
\* paths (up to date and holding credit).
idle(S, paths_clean, inbound_paths_idle) ==
  out_stalled(S.out_) \/ (out_clean(S.out_, paths_clean) /\ inbound_paths_idle)

\* ------------------------------------------------------------------------
\* Management of worker and storage streams
\* ------------------------------------------------------------------------

\* add_worker(filter): an output stream to a local subscriber.
add_worker(S, hdl, f) ==
  LET slot == next_slot(S)
  IN with_worker(S, set_filter([S.out_.worker EXCEPT
                                  !.paths = MapEmplace(@, slot, new_path(hdl, TRUE))],
                               slot, f))

\* add_store(hdl, filter): an output stream to a local store.
add_store(S, hdl, f) ==
  LET slot == next_slot(S)
  IN with_store(S, set_filter([S.out_.store EXCEPT
                                 !.paths = MapEmplace(@, slot, new_path(hdl, TRUE))],
                              slot, f))

\* ------------------------------------------------------------------------
\* Store events (store_actor.cc)
\* ------------------------------------------------------------------------

\* broker::nil as an element of a data vector.
nil == "nil"

\* An empty optional, and the default-constructed (invalid) node id.
none == "none"

\* topics::store_events, and the master topic of the store named "f".
T_store_events == <<"e">>

T_master == <<"f", "/", "m", "a", "s", "t", "e", "r">>

\* entity_id{endpoint, object}
make_entity_id(endpoint, object) == [endpoint |-> endpoint, object |-> object]

\* entity_id::operator bool: the endpoint member is valid.
entity_valid(x) == x.endpoint # none

\* The node ids to<data> can convert.
Convertible == {"n0", "n1"}

\* to<data>(x.endpoint): the data form of a node id, or none.
to_data(endpoint) == IF endpoint \in Convertible THEN endpoint ELSE none

\* vec_slots<T>()
vec_slots(T) == IF T = "entity_id" THEN 2 ELSE 1

\* append for an entity_id that leaves the object of a valid publisher in
\* place when its endpoint has no data form.
append_object_kept(xs, T, x) ==
  IF T = "entity_id"
  THEN IF entity_valid(x)
       THEN IF to_data(x.endpoint) # none
            THEN xs \o <<to_data(x.endpoint), x.object>>
            ELSE xs \o <<nil, x.object>>
       ELSE xs \o <<nil, nil>>
  ELSE IF T = "optional"
  THEN IF x # none THEN Append(xs, x) ELSE Append(xs, nil)
  ELSE Append(xs, x)

\* append(xs, x): the overloads for entity_id, optional<T> and any other T.
append(xs, T, x) ==
  IF T = "entity_id"
  THEN IF entity_valid(x) /\ to_data(x.endpoint) # none
       THEN xs \o <<to_data(x.endpoint), x.object>>
       ELSE xs \o <<nil, nil>>
  ELSE IF T = "optional"
  THEN IF x # none THEN Append(xs, x) ELSE Append(xs, nil)
  ELSE Append(xs, x)

\* (vec_slots<Ts>() + ...): what fill_vector reserves for its arguments,
\* given as <<type, value>> pairs.
RECURSIVE reserved(_)
reserved(args) ==
  IF args = <<>> THEN 0 ELSE vec_slots(Head(args)[1]) + reserved(Tail(args))

\* fill_vector(vec, xs...): appends the arguments in order.
RECURSIVE fill_vector(_, _)
fill_vector(vec, args) ==
  IF args = <<>> THEN vec
  ELSE fill_vector(append(vec, Head(args)[1], Head(args)[2]), Tail(args))

\* The core's handler of (publish, local, msg): ship_locally(msg).
publish_local(S, x) == local_push(S, x)

\* emit_*_event: builds the vector and sends it to the core as a local
\* publish on the store-events topic.  The inputs and the vector go into
\* the log of the handler run.
emit_event(S, name, publisher, expiry, args) ==
  LET xs == fill_vector(<<>>, args)
  IN publish_local(Log(S, Ev(name, publisher, expiry,
                             [xs |-> xs, reserved |-> reserved(args)])),
                   make_content(xs, "data", T_store_events))

emit_insert_event(S, key, value, expiry, publisher) ==
  emit_event(S, "emit_insert_event", publisher, expiry,
             <<<<"string", "insert">>, <<"data", key>>, <<"data", value>>,
               <<"optional", expiry>>, <<"entity_id", publisher>>>>)

emit_update_event(S, key, old_value, new_value, expiry, publisher) ==
  emit_event(S, "emit_update_event", publisher, expiry,
             <<<<"string", "update">>, <<"data", key>>, <<"data", old_value>>,
               <<"data", new_value>>, <<"optional", expiry>>,
               <<"entity_id", publisher>>>>)

emit_erase_event(S, key, publisher) ==
  emit_event(S, "emit_erase_event", publisher, none,
             <<<<"string", "erase">>, <<"data", key>>,
               <<"entity_id", publisher>>>>)

\* ------------------------------------------------------------------------
\* Master and clone actors
\* ------------------------------------------------------------------------
\* A store actor is [role, backend, taken, clones, forwarded]: backend maps
\* keys to values, taken counts the commands the actor took from its
\* stream, clones tells a master that a clone asked for a snapshot, and
\* forwarded holds the commands a clone passed on to the master.

new_store ==
  [role |-> "none", backend |-> EmptyMap, taken |-> 0, clones |-> FALSE,
   forwarded |-> <<>>]

\* T_clone is the clone topic of the store named "f".

\* internal_command variants, as vectors: the publisher takes the last two
\* positions.
put_command(key, value, expiry, publisher) ==
  <<"put", key, value, expiry, publisher.endpoint, publisher.object>>

erase_command(key, publisher) ==
  <<"erase", key, publisher.endpoint, publisher.object>>

clear_command(publisher) == <<"clear", publisher.endpoint, publisher.object>>

snapshot_request == <<"snapshot">>

\* snapshot-response: the keys and values of the backend, keys in the
\* order `keys`.
RECURSIVE snapshot_entries(_, _)
snapshot_entries(backend, keys) ==
  IF keys = <<>> THEN <<>>
  ELSE <<Head(keys), backend[Head(keys)]>> \o snapshot_entries(backend, Tail(keys))

snapshot_response(backend, keys) == <<"set">> \o snapshot_entries(backend, keys)

command_publisher(cmd) == make_entity_id(cmd[Len(cmd) - 1], cmd[Len(cmd)])

\* store::get
get(st, key) == IF key \in DOMAIN st.backend THEN st.backend[key] ELSE "no_such_key"

\* The enumerations of the set K.
Orders(K) ==
  {o \in [1..Cardinality(K) -> K] : \A i, j \in 1..Cardinality(K) : o[i] = o[j] => i = j}

\* A store actor run gives [s, st]: the core after the publishes of the
\* run, and the actor.

\* put: an absent key is inserted, a present one updated.
apply_put(S, st, cmd) ==
  LET key == cmd[2]
      value == cmd[3]
  IN [st |-> [st EXCEPT !.backend = MapSet(@, key, value)],
      s |-> IF key \in DOMAIN st.backend
            THEN emit_update_event(S, key, st.backend[key], value, cmd[4],
                                   command_publisher(cmd))
            ELSE emit_insert_event(S, key, value, cmd[4], command_publisher(cmd))]

\* erase: a present key is erased, an absent one changes nothing.
apply_erase(S, st, cmd) ==
  IF cmd[2] \in DOMAIN st.backend
  THEN [st |-> [st EXCEPT !.backend = MapErase(@, cmd[2])],
        s |-> emit_erase_event(S, cmd[2], command_publisher(cmd))]
  ELSE [st |-> st, s |-> S]

\* clear: erases the keys of the backend, in the order `keys`.
RECURSIVE erase_all(_, _, _)
erase_all(S, keys, publisher) ==
  IF keys = <<>> THEN S
  ELSE erase_all(emit_erase_event(S, Head(keys), publisher), Tail(keys), publisher)

apply_clear(S, st, cmd, keys) ==
  [st |-> [st EXCEPT !.backend = EmptyMap],
   s |-> erase_all(S, keys, command_publisher(cmd))]

\* A mutation of the store.
apply_command(S, st, cmd, keys) ==
  IF cmd[1] = "put" THEN apply_put(S, st, cmd)
  ELSE IF cmd[1] = "erase" THEN apply_erase(S, st, cmd)
  ELSE IF cmd[1] = "clear" THEN apply_clear(S, st, cmd, keys)
  ELSE [st |-> st, s |-> S]

\* A master that keeps its mutations to itself.
broadcast_never(r, cmd) == r

\* The master forwards every mutation to its clones on the clone topic.
broadcast(r, cmd) ==
  IF r.st.clones
  THEN [r EXCEPT !.s = publish(@, make_content(cmd, "command", T_clone))]
  ELSE r

\* A master whose put never looks for the old value.
master_command_insert_only(S, st, cmd, keys) ==
  IF cmd[1] = "put"
  THEN broadcast([st |-> [st EXCEPT !.backend = MapSet(@, cmd[2], cmd[3])],
                  s |-> emit_insert_event(S, cmd[2], cmd[3], cmd[4],
                                          command_publisher(cmd))], cmd)
  ELSE broadcast(apply_command(S, st, cmd, keys), cmd)

\* The master runs a command: a mutation is applied and forwarded, a
\* snapshot request is answered with the backend on the clone topic.
master_command(S, st, cmd, keys) ==
  IF cmd = snapshot_request
  THEN [st |-> [st EXCEPT !.clones = TRUE],
        s |-> publish(S, make_content(snapshot_response(st.backend, keys),
                                      "command", T_clone))]
  ELSE broadcast(apply_command(S, st, cmd, keys), cmd)

\* The clone takes a snapshot: its copy becomes the snapshot, every key
\* of which is reported as inserted.
RECURSIVE insert_all(_, _, _)
insert_all(S, entries, publisher) ==
  IF entries = <<>> THEN S
  ELSE insert_all(emit_insert_event(S, entries[1], entries[2], none, publisher),
                  SubSeq(entries, 3, Len(entries)), publisher)

RECURSIVE entries_map(_)
entries_map(entries) ==
  IF entries = <<>> THEN EmptyMap
  ELSE MapSet(entries_map(SubSeq(entries, 3, Len(entries))), entries[1], entries[2])

\* The clone runs a command of the clone topic: commands that arrive
\* before the snapshot are covered by it.
clone_command(S, st, cmd, keys) ==
  IF cmd[1] = "set"
  THEN [st |-> [st EXCEPT !.role = "clone", !.backend = entries_map(Tail(cmd))],
        s |-> insert_all(S, Tail(cmd), make_entity_id(none, "0"))]
  ELSE IF st.role # "clone" THEN [st |-> st, s |-> S]
  ELSE apply_command(S, st, cmd, keys)

\* ------------------------------------------------------------------------
\* The wake/notify pipe (flare.cc)
\* ------------------------------------------------------------------------

\* The bytes the pipe holds at most.
PipeCapacity == 2

\* char tmp[256] in extinguish()
ReadChunk == 256

\* The signals that interrupt a system call of a thread.
MaxSignals == 2

Threads == {"t1", "t2", "t3"}

\* ::write(fds_[1], &tmp, 1) on the non-blocking write end: gives the
\* result, errno and the bytes in the pipe after the call.
sys_write(pipe, interrupted) ==
  IF interrupted THEN [n |-> -1, errno |-> "EINTR", pipe |-> pipe]
  ELSE IF pipe < PipeCapacity THEN [n |-> 1, errno |-> "none", pipe |-> pipe + 1]
  ELSE [n |-> -1, errno |-> "EAGAIN", pipe |-> pipe]

\* ::read(fds_[0], tmp, count) on the non-blocking read end.
sys_read(pipe, count, interrupted) ==
  IF interrupted THEN [n |-> -1, errno |-> "EINTR", pipe |-> pipe]
  ELSE IF pipe > 0 THEN [n |-> Min(pipe, count), errno |-> "none",
                         pipe |-> pipe - Min(pipe, count)]
  ELSE [n |-> -1, errno |-> "EAGAIN", pipe |-> pipe]

\* One iteration of the loop of an operation gives [pipe, done, ret]:
\* the pipe after the system call, whether the operation returns, and
\* what it returns.

\* flare::fire
fire(pipe, interrupted) ==
  LET r == sys_write(pipe, interrupted)
  IN [pipe |-> r.pipe,
      done |-> r.n > 0 \/ (r.n < 0 /\ r.errno = "EAGAIN"),
      ret |-> null]

\* flare::extinguish
extinguish(pipe, interrupted) ==
  LET r == sys_read(pipe, ReadChunk, interrupted)
  IN [pipe |-> r.pipe,
      done |-> r.n = -1 /\ r.errno = "EAGAIN",
      ret |-> null]

\* extinguish_one that reads as much as extinguish does.
extinguish_one_chunk(pipe, interrupted) ==
  LET r == sys_read(pipe, ReadChunk, interrupted)
  IN [pipe |-> r.pipe,
      done |-> r.n >= 1 \/ (r.n < 0 /\ r.errno = "EAGAIN"),
      ret |-> IF r.n >= 1 THEN "true" ELSE "false"]

\* flare::extinguish_one
extinguish_one(pipe, interrupted) ==
  LET r == sys_read(pipe, 1, interrupted)
  IN [pipe |-> r.pipe,
      done |-> r.n = 1 \/ (r.n < 0 /\ r.errno = "EAGAIN"),
      ret |-> IF r.n = 1 THEN "true" ELSE "false"]

\* flare::flare(): an empty pipe; no thread is in an operation.
new_flare ==
  [pipe |-> 0,
   thread |-> [t \in Threads |-> [op |-> "idle", ret |-> null]],
   signals |-> 0]

\* ------------------------------------------------------------------------
\* Transitions
\* ------------------------------------------------------------------------

\* Local subscribers: a worker and a store actor.
Worker == "w"

Store == "s"

\* The wire messages a handler run sent to `to`, in order.
RECURSIVE SentTo(_, _)
SentTo(sent, to) ==
  IF sent = <<>> THEN <<>>
  ELSE (IF Head(sent).to = to THEN <<Head(sent).msg>> ELSE <<>>)
       \o SentTo(Tail(sent), to)

\* The elements a handler run shipped to local subscribers, in order.
RECURSIVE Shipped(_)
Shipped(sent) ==
  IF sent = <<>> THEN <<>>
  ELSE (IF Head(sent).to \in {Worker, Store} /\ Head(sent).msg.type = "batch"
        THEN [i \in 1..Len(Head(sent).msg.xs) |->
                [to |-> Head(sent).to, x |-> Head(sent).msg.xs[i]]]
        ELSE <<>>)
       \o Shipped(Tail(sent))

\* Installs the outcome S of a handler run of endpoint n; an actor that
\* quit runs no handler.
Install(n, S) ==
  /\ ~quit[n]
  /\ hdl_to_ostream_' = [hdl_to_ostream_ EXCEPT ![n] = S.hdl_to_ostream_]
  /\ ostream_to_peer_' = [ostream_to_peer_ EXCEPT ![n] = S.ostream_to_peer_]
  /\ hdl_to_istream_' = [hdl_to_istream_ EXCEPT ![n] = S.hdl_to_istream_]
  /\ istream_to_hdl_' = [istream_to_hdl_ EXCEPT ![n] = S.istream_to_hdl_]
  /\ pending_connections_' = [pending_connections_ EXCEPT ![n] = S.pending_connections_]
  /\ blocked_peers' = [blocked_peers EXCEPT ![n] = S.blocked_peers]
  /\ blocked_msgs' = [blocked_msgs EXCEPT ![n] = S.blocked_msgs]
  /\ out_' = [out_ EXCEPT ![n] = S.out_]
  /\ inbound_paths_' = [inbound_paths_ EXCEPT ![n] = S.inbound_paths_]
  /\ options' = [options EXCEPT ![n] = S.options]
  /\ filter' = [filter EXCEPT ![n] = S.filter]
  /\ shutting_down' = [shutting_down EXCEPT ![n] = S.shutting_down]
  /\ quit' = [quit EXCEPT ![n] = S.quit]
  /\ promises' = S.promises
  /\ events' = S.events
  /\ mailbox' = [mailbox EXCEPT ![n] = @ \o Shipped(S.sent)]
  /\ UNCHANGED flare

\* A handler run of the core leaves the store actors alone.
Commit(n, S) == Install(n, S) /\ UNCHANGED stores

\* Messages sent to other endpoints go on the wire.  Peers that are the
\* environment take their messages at once: the wire then shows what the
\* last handler run sent.
Ship(n, S) ==
  /\ net' = [l \in DOMAIN net |->
              IF peers_modelled
              THEN IF l[1] = n THEN net[l] \o SentTo(S.sent, l[2]) ELSE net[l]
              ELSE IF l[1] = n THEN SentTo(S.sent, l[2]) ELSE <<>>]
  /\ UNCHANGED peers_modelled

Links == {l \in Nodes \X Nodes : l[1] # l[2]}

InitCommon ==
  /\ hdl_to_ostream_ = [n \in Nodes |-> EmptyMap]
  /\ ostream_to_peer_ = [n \in Nodes |-> EmptyMap]
  /\ hdl_to_istream_ = [n \in Nodes |-> EmptyMap]
  /\ istream_to_hdl_ = [n \in Nodes |-> EmptyMap]
  /\ pending_connections_ = [n \in Nodes |-> EmptyMap]
  /\ blocked_peers = [n \in Nodes |-> {}]
  /\ blocked_msgs = [n \in Nodes |-> EmptyMap]
  /\ out_ = [n \in Nodes |-> [peer |-> new_manager("peer"),
                              worker |-> new_manager("worker"),
                              store |-> new_manager("store")]]
  /\ inbound_paths_ = [n \in Nodes |-> EmptyMap]
  /\ shutting_down = [n \in Nodes |-> FALSE]
  /\ quit = [n \in Nodes |-> FALSE]
  /\ events = <<>>
  /\ net = [l \in Links |-> <<>>]
  /\ mailbox = [n \in Nodes |-> <<>>]
  /\ promises = <<>>
  /\ next_batch = 1
  /\ published = 0
  /\ flare = new_flare
  /\ stores = [n \in Nodes |-> new_store]

\* ---- the endpoint under arbitrary calls of its handlers -----------------

Self == "n0"

Peers == Nodes \ {Self}

Handles == Peers \cup {null}

Filters == {{T_a}, {T_clone}}

Reasons == {"none", "unreachable"}

\* The node messages the environment puts into peer batches: data and
\* command content, plain and clone-suffixed topics, TTLs around the
\* expiry boundary.
M1 == [id |-> 1, kind |-> "data", topic |-> T_a, ttl |-> 2, hops |-> 0]

M2 == [id |-> 2, kind |-> "data", topic |-> T_a, ttl |-> 1, hops |-> 0]

M3 == [id |-> 3, kind |-> "command", topic |-> T_clone, ttl |-> 2, hops |-> 0]

M4 == [id |-> 4, kind |-> "data", topic |-> T_a, ttl |-> 0, hops |-> 0]

PeerBatches == {<<M1>>, <<M2, M1>>, <<M3>>, <<M4>>}

LocalContent == make_content(5, "data", T_a)

Init ==
  /\ InitCommon
  /\ peers_modelled = FALSE
  /\ options \in [Nodes -> {[forward |-> TRUE, ttl |-> 2]}]
  /\ filter = [n \in Nodes |-> {T_b}]

StartPeering(n, p) ==
  /\ Len(promises) < MaxPromises
  /\ LET S == [State(n) EXCEPT !.promises = Append(@, <<>>)]
         R == start_peering(S, p, Len(promises) + 1)
     IN Commit(n, R) /\ Ship(n, R)
  /\ UNCHANGED <<next_batch, published>>

\* The stream manager can hand out k more slots.
CanAllocate(n, k) == next_slot(State(n)) + k - 1 <= MaxSlot

\* Step #1 at the responder: (peer, filter, hdl) arrived.
HandlePeer(n, p, f) ==
  /\ CanAllocate(n, 1)
  /\ \E R \in {start_handshake(State(n), TRUE, p, f).s} :
       Commit(n, R) /\ Ship(n, R)
  /\ UNCHANGED <<next_batch, published>>

\* Step #2 at the initiator: the responder's stream handshake
\* (filter, hdl) arrived.
handle_open_stream_filter(S, p, f, remote) ==
  IF p \notin DOMAIN S.pending_connections_
  THEN Log(S, Ev("error", p, "received handshake from unknown peer", 0))
  ELSE LET h == start_handshake(S, FALSE, p, f)
           S1 == [h.s EXCEPT !.pending_connections_[p].slot = h.slot]
           S2 == ack_peering(S1, remote, p)
           S3 == deliver(S2, S2.pending_connections_[p].rp, "unit")
       IN Log([S3 EXCEPT !.pending_connections_ = MapErase(@, p)],
              Ev("peer_connected", p, "none", 0))

HandleOpenStreamFilter(n, p, f, remote) ==
  /\ CanAllocate(n, 2)
  /\ \E R \in {handle_open_stream_filter(State(n), p, f, remote)} :
       Commit(n, R) /\ Ship(n, R)
  /\ UNCHANGED <<next_batch, published>>

\* Step #3 at the responder: the initiator's stream handshake (ok, hdl)
\* arrived.
handle_open_stream_ok(S, p, remote) ==
  IF p \notin DOMAIN S.hdl_to_ostream_
  THEN Log(S, Ev("error", p, "received handshake from unknown peer", 0))
  ELSE Log(ack_peering(S, remote, p), Ev("peer_connected", p, "none", 0))

HandleOpenStreamOk(n, p, remote) ==
  /\ CanAllocate(n, 1)
  /\ \E R \in {handle_open_stream_ok(State(n), p, remote)} :
       Commit(n, R) /\ Ship(n, R)
  /\ UNCHANGED <<next_batch, published>>

\* Stream events reach the manager for the slots it registered: the
\* outbound slots of its paths and of its path table.
OutSlots(n) ==
  DOMAIN ostream_to_peer_[n] \cup DOMAIN out_[n].peer.paths
    \cup DOMAIN out_[n].worker.paths \cup DOMAIN out_[n].store.paths

HandleAckOpen(n, slot, credit, rebind_from, rebind_to) ==
  /\ slot \in OutSlots(n)
  /\ \E R \in {handle_ack_open(State(n), slot, credit, rebind_from, rebind_to)} :
       Commit(n, R) /\ Ship(n, R)
  /\ UNCHANGED <<next_batch, published>>

Unpeer(n, p) ==
  /\ \E R \in {unpeer(State(n), p)} :
       Commit(n, R) /\ Ship(n, R)
  /\ UNCHANGED <<next_batch, published>>

BlockPeer(n, p) ==
  /\ \E R \in {block_peer(State(n), p)} :
       Commit(n, R) /\ Ship(n, R)
  /\ UNCHANGED <<next_batch, published>>

UnblockPeer(n, p) ==
  /\ \E R \in {unblock_peer(Log(State(n), Ev("call", p, "unblock_peer", 0)), p)} :
       Commit(n, R) /\ Ship(n, R)
  /\ UNCHANGED <<next_batch, published>>

UpdatePeer(n, p, f) ==
  /\ \E R \in {update_peer(State(n), p, f).s} :
       Commit(n, R) /\ Ship(n, R)
  /\ UNCHANGED <<next_batch, published>>

AddWorker(n, f) ==
  /\ num_paths(out_[n].worker) = 0
  /\ CanAllocate(n, 1)
  /\ \E R \in {add_worker(State(n), Worker, f)} :
       Commit(n, R) /\ Ship(n, R)
  /\ UNCHANGED <<next_batch, published>>

AddStore(n, f) ==
  /\ num_paths(out_[n].store) = 0
  /\ CanAllocate(n, 1)
  /\ \E R \in {add_store(State(n), Store, f)} :
       Commit(n, R) /\ Ship(n, R)
  /\ UNCHANGED <<next_batch, published>>

\* A batch arrives on the inbound path `slot`.
HandleBatch(n, slot, xs) ==
  /\ next_batch <= MaxBatches
  /\ slot \in DOMAIN inbound_paths_[n]
  /\ \E R \in {handle_inbound_batch(State(n), inbound_paths_[n][slot].hdl,
                                   Batch("peer", next_batch, xs))} :
       Commit(n, R) /\ Ship(n, R)
  /\ next_batch' = next_batch + 1
  /\ UNCHANGED published

\* A batch of a local publisher arrives ("worker", "store" or "var"
\* elements, or a type the transport does not know).
HandleLocalBatch(n, type) ==
  /\ published < MaxPublish
  /\ \E R \in {handle_inbound_batch(State(n), Worker,
                                   Batch(type, 0, <<LocalContent>>))} :
       Commit(n, R) /\ Ship(n, R)
  /\ published' = published + 1
  /\ UNCHANGED next_batch

\* The endpoint publishes a message of its own.
Publish(n, x) ==
  /\ published < MaxPublish
  /\ \E R \in {publish(State(n), x)} :
       Commit(n, R) /\ Ship(n, R)
  /\ published' = published + 1
  /\ UNCHANGED next_batch

HandleClose(n, slot) ==
  /\ slot \in DOMAIN inbound_paths_[n]
  /\ \E R \in {handle_close(State(n), slot)} :
       Commit(n, R) /\ Ship(n, R)
  /\ UNCHANGED <<next_batch, published>>

HandleForcedClose(n, slot, reason) ==
  /\ slot \in DOMAIN inbound_paths_[n]
  /\ \E R \in {handle_forced_close(State(n), slot, reason)} :
       Commit(n, R) /\ Ship(n, R)
  /\ UNCHANGED <<next_batch, published>>

HandleDrop(n, slot) ==
  /\ slot \in OutSlots(n)
  /\ \E R \in {handle_drop(State(n), slot)} :
       Commit(n, R) /\ Ship(n, R)
  /\ UNCHANGED <<next_batch, published>>

HandleForcedDrop(n, slot, reason) ==
  /\ slot \in OutSlots(n)
  /\ \E R \in {handle_forced_drop(State(n), slot, reason)} :
       Commit(n, R) /\ Ship(n, R)
  /\ UNCHANGED <<next_batch, published>>

\* The sink of an outbound path acknowledges batches with new credit.
HandleAckBatch(n, slot, credit) ==
  /\ owner(State(n), slot) # "none"
  /\ ~out_[n][owner(State(n), slot)].paths[slot].pending
  /\ \E R \in {handle_ack_batch(State(n), slot, credit)} :
       Commit(n, R) /\ Ship(n, R)
  /\ UNCHANGED <<next_batch, published>>

\* The user asks the endpoint to shut down.
Shutdown(n) ==
  /\ ~shutting_down[n]
  /\ Commit(n, [State(n) EXCEPT !.shutting_down = TRUE])
  /\ UNCHANGED <<net, next_batch, published, peers_modelled>>

\* Slots the environment names in stream events.
SlotIds == 1..MaxSlot

Next ==
  \/ \E p \in Handles : StartPeering(Self, p)
  \/ \E p \in Peers : HandlePeer(Self, p, {T_a})
  \/ \E p \in Peers : HandleOpenStreamFilter(Self, p, {T_a}, 1)
  \/ \E p \in Peers : HandleOpenStreamOk(Self, p, 1)
  \/ \E s \in SlotIds : HandleAckOpen(Self, s, 1, null, null)
  \/ \E p \in Handles : Unpeer(Self, p)
  \/ \E s \in SlotIds : HandleClose(Self, s)
  \/ \E s \in SlotIds : HandleForcedClose(Self, s, "unreachable")
  \/ \E s \in SlotIds : HandleDrop(Self, s)
  \/ \E s \in SlotIds : HandleForcedDrop(Self, s, "unreachable")

Spec == Init /\ [][Next]_vars

\* ---- one endpoint with established peerings under traffic --------------

\* The state of endpoint n right after construction.
new_state(n, opts, f) ==
  [self |-> n,
   hdl_to_ostream_ |-> EmptyMap,
   ostream_to_peer_ |-> EmptyMap,
   hdl_to_istream_ |-> EmptyMap,
   istream_to_hdl_ |-> EmptyMap,
   pending_connections_ |-> EmptyMap,
   blocked_peers |-> {},
   blocked_msgs |-> EmptyMap,
   out_ |-> [peer |-> new_manager("peer"),
             worker |-> new_manager("worker"),
             store |-> new_manager("store")],
   inbound_paths_ |-> EmptyMap,
   options |-> opts,
   filter |-> f,
   shutting_down |-> FALSE,
   quit |-> FALSE,
   promises |-> <<>>,
   events |-> <<>>,
   sent |-> <<>>]

\* The state S once the endpoint went through the responder's side of a
\* handshake with peer p (filter f, the peer's output slot `remote`) and
\* the peer acknowledged the stream with `credit`.
peered_with(S, p, f, remote, credit) ==
  LET S1 == start_handshake(S, TRUE, p, f).s
      S2 == handle_open_stream_ok(S1, p, remote)
  IN handle_ack_open(S2, S2.hdl_to_ostream_[p], credit, null, null)

\* The state S once a local subscriber with filter f joined and
\* acknowledged its stream.
with_subscriber(S, f, credit) ==
  LET S1 == add_worker(S, Worker, f)
  IN handle_ack_open(S1, next_slot(S), credit, null, null)

RECURSIVE peered_with_all(_, _, _, _, _)
peered_with_all(S, ps, f, remote, credit) ==
  IF ps = <<>> THEN S
  ELSE peered_with_all(peered_with(S, Head(ps), f, remote[Head(ps)], credit),
                       Tail(ps), f, remote, credit)

\* The variables of the cores hold the endpoint states st (a function on
\* Nodes), with nothing in flight.
InstalledCores(st) ==
  /\ hdl_to_ostream_ = [n \in Nodes |-> st[n].hdl_to_ostream_]
  /\ ostream_to_peer_ = [n \in Nodes |-> st[n].ostream_to_peer_]
  /\ hdl_to_istream_ = [n \in Nodes |-> st[n].hdl_to_istream_]
  /\ istream_to_hdl_ = [n \in Nodes |-> st[n].istream_to_hdl_]
  /\ pending_connections_ = [n \in Nodes |-> st[n].pending_connections_]
  /\ blocked_peers = [n \in Nodes |-> st[n].blocked_peers]
  /\ blocked_msgs = [n \in Nodes |-> st[n].blocked_msgs]
  /\ out_ = [n \in Nodes |-> st[n].out_]
  /\ inbound_paths_ = [n \in Nodes |-> st[n].inbound_paths_]
  /\ options = [n \in Nodes |-> st[n].options]
  /\ filter = [n \in Nodes |-> st[n].filter]
  /\ shutting_down = [n \in Nodes |-> FALSE]
  /\ quit = [n \in Nodes |-> FALSE]
  /\ events = <<>>
  /\ net = [l \in Links |-> <<>>]
  /\ mailbox = [n \in Nodes |-> <<>>]
  /\ promises = <<>>
  /\ next_batch = 1
  /\ published = 0
  /\ flare = new_flare

\* The endpoints are in the states st and host no store actor.
Installed(st) == InstalledCores(st) /\ stores = [n \in Nodes |-> new_store]

BatchOptions == [forward |-> TRUE, ttl |-> 2]

\* Self is fully peered with both peers; every path holds one credit.
InitBatch ==
  /\ peers_modelled = FALSE
  /\ \E st \in {[n \in Nodes |->
             IF n = Self
             THEN peered_with_all(new_state(n, BatchOptions, {T_a}),
                                  <<"n1", "n2">>, {T_a}, [p \in Peers |-> 1], 1)
             ELSE new_state(n, BatchOptions, {T_a})]} :
       Installed(st)

NextBatch ==
  \/ \E s \in SlotIds : \E xs \in PeerBatches : HandleBatch(Self, s, xs)
  \/ Publish(Self, LocalContent)
  \/ \E p \in Peers : BlockPeer(Self, p)
  \/ \E p \in Peers : UnblockPeer(Self, p)
  \/ \E s \in SlotIds : \E c \in 1..MaxCredit : HandleAckBatch(Self, s, c)
  \/ \E p \in Peers : Unpeer(Self, p)

SpecBatch == InitBatch /\ [][NextBatch]_vars

\* ---- an overlay of endpoints exchanging messages over the wire ---------

\* The endpoints in the order they are set up.
NodeSeq == <<"n0", "n1", "n2">>

\* Endpoint `to` takes the oldest message of the link from `from`; what
\* its handler run S sent goes on the wire behind what is in flight.
Take(from, to, S) ==
  /\ net' = [l \in DOMAIN net |->
              (IF l = <<from, to>> THEN Tail(net[l]) ELSE net[l])
                \o (IF l[1] = to THEN SentTo(S.sent, l[2]) ELSE <<>>)]
  /\ UNCHANGED peers_modelled

\* The oldest message in flight from `from` to `to` has the given type.
Arrives(from, to, type) ==
  /\ peers_modelled
  /\ net[<<from, to>>] # <<>>
  /\ Head(net[<<from, to>>]).type = type

\* Step #1: the responder handles (peer, filter, hdl).
DeliverPeer(from, to) ==
  /\ Arrives(from, to, "peer")
  /\ \E R \in {start_handshake(State(to), TRUE, from,
                               Head(net[<<from, to>>]).filter).s} :
       Commit(to, R) /\ Take(from, to, R)
  /\ next_batch' = next_batch + 1
  /\ UNCHANGED published

\* Step #2: the initiator handles the responder's stream handshake.
DeliverOpenStreamFilter(from, to) ==
  /\ Arrives(from, to, "open_stream_filter")
  /\ \E R \in {handle_open_stream_filter(State(to), from,
                                         Head(net[<<from, to>>]).filter,
                                         Head(net[<<from, to>>]).slot)} :
       Commit(to, R) /\ Take(from, to, R)
  /\ next_batch' = next_batch + 1
  /\ UNCHANGED published

\* Step #3: the responder handles the initiator's stream handshake.
DeliverOpenStreamOk(from, to) ==
  /\ Arrives(from, to, "open_stream_ok")
  /\ \E R \in {handle_open_stream_ok(State(to), from,
                                     Head(net[<<from, to>>]).slot)} :
       Commit(to, R) /\ Take(from, to, R)
  /\ next_batch' = next_batch + 1
  /\ UNCHANGED published

\* The sink's ack_open reaches the source of the stream; the first credit
\* is MaxCredit.
DeliverAckOpen(from, to) ==
  /\ Arrives(from, to, "ack_open")
  /\ \E R \in {handle_ack_open(State(to), Head(net[<<from, to>>]).slot,
                               MaxCredit, from, from)} :
       Commit(to, R) /\ Take(from, to, R)
  /\ next_batch' = next_batch + 1
  /\ UNCHANGED published

\* A batch reaches the inbound path of the stream from `from`; copies that
\* went through MaxHops forwarding steps stay on the wire.
DeliverBatch(from, to) ==
  /\ Arrives(from, to, "batch")
  /\ from \in DOMAIN hdl_to_istream_[to]
  /\ \A i \in 1..Len(Head(net[<<from, to>>]).xs) :
       Head(net[<<from, to>>]).xs[i].hops < MaxHops
  /\ \E R \in {handle_inbound_batch(State(to), from,
                                    Batch("peer", next_batch,
                                          Head(net[<<from, to>>]).xs))} :
       Commit(to, R) /\ Take(from, to, R)
  /\ next_batch' = next_batch + 1
  /\ UNCHANGED published

\* The user of endpoint n asks for a peering with p, which n does not know
\* yet.
InitiatePeering(n, p) ==
  /\ p \notin DOMAIN pending_connections_[n]
  /\ ~connected_to(State(n), p)
  /\ \E R \in {start_peering([State(n) EXCEPT !.promises = Append(@, <<>>)],
                             p, Len(promises) + 1)} :
       Commit(n, R) /\ Ship(n, R)
  /\ UNCHANGED <<next_batch, published>>

\* ---- handshakes between the endpoints ---------------------------------

\* The pairs <<a, b>> with a set up before b: a initiates the peering.
Pairs ==
  {<<NodeSeq[i], NodeSeq[j]>> : i \in 1..Len(NodeSeq), j \in 1..Len(NodeSeq)}
    \cap {l \in Links : \E i, j \in 1..Len(NodeSeq) :
            i < j /\ l = <<NodeSeq[i], NodeSeq[j]>>}

HSFilter == [n \in Nodes |-> IF n = "n0" THEN {T_a} ELSE {T_b}]

InitHS ==
  /\ peers_modelled = TRUE
  /\ \E st \in {[n \in Nodes |-> new_state(n, BatchOptions, HSFilter[n])]} :
       Installed(st)

NextHS ==
  \/ \E l \in Pairs : InitiatePeering(l[1], l[2])
  \/ \E l \in Links : DeliverPeer(l[1], l[2])
  \/ \E l \in Links : DeliverOpenStreamFilter(l[1], l[2])
  \/ \E l \in Links : DeliverOpenStreamOk(l[1], l[2])
  \/ \E l \in Links : DeliverAckOpen(l[1], l[2])

\* Some message is in flight.
Pending == \E l \in Links : net[l] # <<>>

\* An endpoint takes a message off the wire: the steps of NextHS that give
\* out an arrival number are its deliveries, and one is possible whenever
\* a message is in flight.
Deliver == Pending /\ next_batch' = next_batch + 1

\* An actor handles every message in its mailbox.
SpecHS == InitHS /\ [][NextHS]_vars /\ WF_next_batch(Deliver)

\* ---- publishing into an overlay of peered endpoints ---------------------

Chain == {{"n0", "n1"}, {"n1", "n2"}}

Triangle == {{"n0", "n1"}, {"n1", "n2"}, {"n0", "n2"}}

\* The peers of n in topology topo, in setup order.
neighbours(topo, n) == SelectSeq(NodeSeq, LAMBDA q : {n, q} \in topo /\ q # n)

\* Endpoint n with a local subscriber, fully peered with its neighbours;
\* remote[p] is the slot of p's stream to n.
overlay_node(topo, n, ttl, remote) ==
  peered_with_all(
    with_subscriber(new_state(n, [forward |-> TRUE, ttl |-> ttl], {T_a}),
                    {T_a}, MaxCredit),
    neighbours(topo, n), {T_a}, remote, MaxCredit)

\* The endpoints of the overlay: the slots are those the endpoints hand
\* out when each one sets up its subscriber and then its peers in order.
overlay(topo, ttl) ==
  LET first == [n \in Nodes |-> overlay_node(topo, n, ttl, [p \in Nodes |-> 0])]
  IN [n \in Nodes |->
        overlay_node(topo, n, ttl,
                     [p \in Nodes |->
                        IF n \in DOMAIN first[p].hdl_to_ostream_
                        THEN first[p].hdl_to_ostream_[n] ELSE 0])]

\* The TTLs the endpoints are configured with.
NetTTLs == {0, 1, 3}

InitNet ==
  /\ peers_modelled = TRUE
  /\ \E topo \in {Chain, Triangle} : \E ttl \in NetTTLs :
       \E st \in {overlay(topo, ttl)} : Installed(st)

\* The position of endpoint n in the setup order.
Idx(n) == CHOOSE i \in 1..Len(NodeSeq) : NodeSeq[i] = n

\* The data message the user of endpoint n publishes.
local_content(n) == make_content(LocalContent.id + Idx(n) - 1, "data", T_a)

NextNet ==
  \/ \E n \in Nodes : Publish(n, local_content(n))
  \/ \E l \in Links : DeliverBatch(l[1], l[2])

SpecNet == InitNet /\ [][NextNet]_vars

\* ---- one endpoint with local subscribers between two peers ---------------

\* The state S once a local store with filter f joined and acknowledged
\* its stream.
with_store_subscriber(S, f, credit) ==
  LET S1 == add_store(S, Store, f)
  IN handle_ack_open(S1, next_slot(S), credit, null, null)

\* Clone-suffixed and plain node messages, data and command, with TTLs
\* around the expiry boundary.
M5 == [id |-> 8, kind |-> "data", topic |-> T_clone, ttl |-> 3, hops |-> 0]

M6 == [id |-> 9, kind |-> "command", topic |-> T_clone, ttl |-> 1, hops |-> 0]

M7 == [id |-> 10, kind |-> "data", topic |-> T_clone, ttl |-> 0, hops |-> 0]

M8 == [id |-> 11, kind |-> "command", topic |-> T_a, ttl |-> 2, hops |-> 0]

LocalBatches == {<<M1>>, <<M3, M5>>, <<M6>>, <<M7, M8>>}

\* The filter of the subscribers and of the peers.
LocalFilter == {T_a, T_clone}

\* Self has a worker and a store and is fully peered with both peers;
\* forwarding is either on or off.
InitLocal ==
  /\ peers_modelled = FALSE
  /\ \E fw \in BOOLEAN :
       \E st \in {[n \in Nodes |->
                     IF n = Self
                     THEN peered_with_all(
                            with_store_subscriber(
                              with_subscriber(
                                new_state(n, [forward |-> fw, ttl |-> 2], LocalFilter),
                                LocalFilter, 1),
                              LocalFilter, 1),
                            <<"n1", "n2">>, LocalFilter, [p \in Peers |-> 1], 1)
                     ELSE new_state(n, BatchOptions, LocalFilter)]} :
         Installed(st)

NextLocal ==
  \/ \E s \in SlotIds : \E xs \in LocalBatches : HandleBatch(Self, s, xs)
  \/ Publish(Self, LocalContent)
  \/ \E s \in SlotIds : HandleAckBatch(Self, s, 1)

SpecLocal == InitLocal /\ [][NextLocal]_vars

\* ---- unpeering inside an overlay ------------------------------------------

\* The inbound path of endpoint S whose source is slot `remote` of `from`
\* (invalid_stream_slot if there is none).
inbound_slot(S, from, remote) ==
  SetMax({s \in DOMAIN S.inbound_paths_ :
            S.inbound_paths_[s] = [hdl |-> from, remote |-> remote]})

\* A close of the stream from slot `remote` of `from` arrives: the
\* transport hands it to the manager with the inbound path it belongs to
\* and discards it when that path is gone.
deliver_close(S, from, remote) ==
  IF inbound_slot(S, from, remote) = invalid_stream_slot THEN S
  ELSE handle_close(S, inbound_slot(S, from, remote))

\* A drop for the outbound path `slot` arrives from its sink `from`; the
\* transport discards it when `from` has no such path.
deliver_drop(S, from, slot) ==
  IF owner(S, slot) # "none" /\ S.out_[owner(S, slot)].paths[slot].hdl = from
  THEN handle_drop(S, slot)
  ELSE S

DeliverClose(from, to) ==
  /\ Arrives(from, to, "close")
  /\ \E R \in {deliver_close(State(to), from, Head(net[<<from, to>>]).slot)} :
       Commit(to, R) /\ Take(from, to, R)
  /\ next_batch' = next_batch + 1
  /\ UNCHANGED published

DeliverDrop(from, to) ==
  /\ Arrives(from, to, "drop")
  /\ \E R \in {deliver_drop(State(to), from, Head(net[<<from, to>>]).slot)} :
       Commit(to, R) /\ Take(from, to, R)
  /\ next_batch' = next_batch + 1
  /\ UNCHANGED published

\* A batch arrives for an inbound path that is gone: the transport
\* discards it.
DiscardBatch(from, to) ==
  /\ Arrives(from, to, "batch")
  /\ from \notin DOMAIN hdl_to_istream_[to]
  /\ \E R \in {State(to)} : Commit(to, R) /\ Take(from, to, R)
  /\ next_batch' = next_batch + 1
  /\ UNCHANGED published

\* The link whose removal partitions the chain n0 - n1 - n2.
CutLink == <<"n1", "n2">>

\* TTL of the partitioning overlay: enough for every endpoint of the chain.
PartTTL == 3

InitPart ==
  /\ peers_modelled = TRUE
  /\ \E st \in {overlay(Chain, PartTTL)} : Installed(st)

NextPart ==
  \/ \E n \in Nodes : Publish(n, local_content(n))
  \/ \E l \in Links : DeliverBatch(l[1], l[2])
  \/ \E l \in Links : DiscardBatch(l[1], l[2])
  \/ \E l \in Links : DeliverClose(l[1], l[2])
  \/ \E l \in Links : DeliverDrop(l[1], l[2])
  \/ \E l \in {CutLink, <<CutLink[2], CutLink[1]>>} : Unpeer(l[1], l[2])

SpecPart == InitPart /\ [][NextPart]_vars

\* ---- routing by filter in a tree of endpoints ---------------------------

\* The subscriptions of the endpoints of the tree n0 [a] - n1 [b] - n2 [c].
TreeFilter == [n \in Nodes |-> IF n = "n0" THEN {T_a} ELSE IF n = "n1" THEN {T_b} ELSE {T_c}]

\* The topic endpoint n publishes on: n0 towards n2, n1 and n2 towards n0.
TreeTopic == [n \in Nodes |-> IF n = "n0" THEN T_c ELSE T_a]

tree_content(n) == make_content(LocalContent.id + Idx(n) - 1, "data", TreeTopic[n])

\* Endpoint n subscribed to its filter and then peered with its
\* neighbours, who had announced no subscription yet.
tree_node(n, remote) ==
  peered_with_all(
    with_subscriber(new_state(n, [forward |-> TRUE, ttl |-> PartTTL], TreeFilter[n]),
                    TreeFilter[n], MaxCredit),
    neighbours(Chain, n), {}, remote, MaxCredit)

tree_overlay ==
  LET first == [n \in Nodes |-> tree_node(n, [p \in Nodes |-> 0])]
  IN [n \in Nodes |->
        tree_node(n, [p \in Nodes |->
                        IF n \in DOMAIN first[p].hdl_to_ostream_
                        THEN first[p].hdl_to_ostream_[n] ELSE 0])]

\* The endpoints n reaches through its peer p.
Behind(n, p) == IF p = "n1" THEN Nodes \ {n} ELSE {p}

\* The filter the core announces to n for its peer p once the
\* subscriptions have propagated: what the endpoints behind p subscribed to.
routed_filter(n, p) == UNION {TreeFilter[m] : m \in Behind(n, p)}

TreeLinks == {l \in Links : {l[1], l[2]} \in Chain}

InitTree ==
  /\ peers_modelled = TRUE
  /\ \E st \in {tree_overlay} : Installed(st)

NextTree ==
  \/ \E n \in Nodes : Publish(n, tree_content(n))
  \/ \E l \in Links : DeliverBatch(l[1], l[2])
  \/ \E l \in TreeLinks : UpdatePeer(l[1], l[2], routed_filter(l[1], l[2]))

SpecTree == InitTree /\ [][NextTree]_vars

\* ---- a peered endpoint forwarding several messages per batch -------------

\* Batches whose elements are all forwarded.
OrderBatches == {<<M1, M8>>, <<M8, M1>>, <<M1>>}

NextOrder ==
  \/ \E s \in SlotIds : \E xs \in OrderBatches : HandleBatch(Self, s, xs)
  \/ Publish(Self, LocalContent)
  \/ \E p \in Peers : BlockPeer(Self, p)
  \/ \E p \in Peers : UnblockPeer(Self, p)
  \/ \E s \in SlotIds : HandleAckBatch(Self, s, 1)

SpecOrder == InitBatch /\ [][NextOrder]_vars

\* ---- credit and buffering ----------------------------------------------

\* What a local publisher hands to ship_locally.
ShipContent == {LocalContent, make_content(6, "command", T_a)}

\* ship_locally(msg): new data for the local subscribers.
ShipLocally(n, x) ==
  /\ published < MaxPublish
  /\ \E R \in {local_push(Log(State(n), Ev("local_push", null, x.kind, x.id)), x)} :
       Commit(n, R) /\ Ship(n, R)
  /\ published' = published + 1
  /\ UNCHANGED next_batch

\* Self has a worker and a store and is fully peered with both peers;
\* no path holds credit yet.
credit_node ==
  peered_with_all(
    with_store_subscriber(
      with_subscriber(new_state(Self, BatchOptions, LocalFilter), LocalFilter, 0),
      LocalFilter, 0),
    <<"n1", "n2">>, LocalFilter, [p \in Peers |-> 1], 0)

InitCredit ==
  /\ peers_modelled = FALSE
  /\ \E st \in {[n \in Nodes |->
                 IF n = Self THEN credit_node
                 ELSE new_state(n, BatchOptions, LocalFilter)]} :
       Installed(st)

\* The outbound slots of Self.
CreditSlots ==
  DOMAIN credit_node.out_.peer.paths \cup DOMAIN credit_node.out_.worker.paths
    \cup DOMAIN credit_node.out_.store.paths

\* The transport grants credit on path s.
Grant(s) == HandleAckBatch(Self, s, 1)

\* The batch a peer sends: a data and a command message, both forwarded.
CreditBatches == {<<M1, M8>>}

NextCredit ==
  \/ \E s \in SlotIds : \E xs \in CreditBatches : HandleBatch(Self, s, xs)
  \/ Publish(Self, LocalContent)
  \/ \E x \in ShipContent : ShipLocally(Self, x)
  \/ \E s \in CreditSlots : Grant(s)
  \/ Unpeer(Self, "n2")

\* Path s is open and short of credit.
Starved(s) ==
  \E k \in {"peer", "worker", "store"} :
    /\ s \in DOMAIN out_[Self][k].paths
    /\ ~out_[Self][k].paths[s].pending
    /\ out_[Self][k].paths[s].credit < MaxCredit

\* The sink of every path keeps acknowledging, which grants credit: a
\* path does not stay short of credit for ever without a grant.
SpecCredit ==
  /\ InitCredit
  /\ [][NextCredit]_vars
  /\ \A s \in CreditSlots : []<>~Starved(s) \/ []<><<Grant(s)>>_vars

\* ---- peers and local subscribers sharing the slots of one endpoint ------

NextSlots ==
  \/ \E p \in Peers : HandlePeer(Self, p, {T_a})
  \/ \E p \in Peers : HandleOpenStreamOk(Self, p, 1)
  \/ \E s \in SlotIds : HandleAckOpen(Self, s, 1, null, null)
  \/ AddWorker(Self, {T_a})
  \/ AddStore(Self, {T_a})
  \/ \E p \in Peers : Unpeer(Self, p)
  \/ \E s \in SlotIds : HandleDrop(Self, s)
  \/ \E s \in SlotIds : HandleForcedDrop(Self, s, "unreachable")

SpecSlots == Init /\ [][NextSlots]_vars

\* ---- blocking a peer of an endpoint with local subscribers --------------

NextBlock ==
  \/ \E s \in SlotIds : \E xs \in CreditBatches : HandleBatch(Self, s, xs)
  \/ Publish(Self, LocalContent)
  \/ \E p \in Peers : BlockPeer(Self, p)
  \/ \E p \in Peers : UnblockPeer(Self, p)
  \/ \E s \in SlotIds : HandleAckBatch(Self, s, 1)

SpecBlock == InitLocal /\ [][NextBlock]_vars

\* ---- shutting down an endpoint with peers --------------------------------

NextShutdown ==
  \/ \E p \in Peers : HandlePeer(Self, p, {T_a})
  \/ \E p \in Peers : HandleOpenStreamOk(Self, p, 1)
  \/ \E s \in SlotIds : HandleAckOpen(Self, s, 1, null, null)
  \/ \E p \in Peers : Unpeer(Self, p)
  \/ \E s \in SlotIds : HandleClose(Self, s)
  \/ \E s \in SlotIds : HandleDrop(Self, s)
  \/ \E s \in SlotIds : HandleForcedDrop(Self, s, "unreachable")
  \/ Shutdown(Self)

SpecShutdown == Init /\ [][NextShutdown]_vars

\* ---- one endpoint hosting the master of a store --------------------------

MaxStoreOps == 3

\* Publishers of store commands: none, one with a convertible endpoint, one
\* whose endpoint has no data form.
NoPublisher == make_entity_id(none, "0")

Frontend == make_entity_id("n0", "1")

Foreign == make_entity_id("x", "2")

\* The commands the users of the store issue.
StoreCommands ==
  {put_command("hello", "world", none, NoPublisher),
   put_command("hello", "universe", "1s", Frontend),
   put_command("user", "neverlord", none, Foreign),
   erase_command("hello", Frontend),
   clear_command(Foreign)}

\* The command a store actor runs goes into the log of the run.
store_command(S, st, cmd, keys) ==
  IF st.role = "master"
  THEN master_command(Log(S, Ev("command", null, st.role, cmd)), st, cmd, keys)
  ELSE clone_command(Log(S, Ev("command", null, st.role, cmd)), st, cmd, keys)

\* The store actor of endpoint n gets cmd through the store handle.
StoreRequest(n, cmd) ==
  /\ published < MaxStoreOps
  /\ stores[n].role = "master"
  /\ \E keys \in Orders(DOMAIN stores[n].backend) :
       \E R \in {store_command(State(n), stores[n], cmd, keys)} :
         /\ Install(n, R.s) /\ Ship(n, R.s)
         /\ stores' = [stores EXCEPT ![n] = R.st]
  /\ published' = published + 1
  /\ UNCHANGED next_batch

\* (publish, local, msg) reaches the core of endpoint n.
PublishLocal(n, x) ==
  /\ published < MaxStoreOps
  /\ \E R \in {publish_local(Log(State(n), Ev("local_push", null, x.kind, 0)), x)} :
       Commit(n, R) /\ Ship(n, R)
  /\ published' = published + 1
  /\ UNCHANGED next_batch

\* The elements the core of endpoint n shipped to subscriber `to`.
ShippedTo(n, to) ==
  LET xs == SelectSeq(mailbox[n], LAMBDA e : e.to = to)
  IN [i \in 1..Len(xs) |-> xs[i].x]

\* The store actor of endpoint n takes the next command from its stream.
StoreTake(n) ==
  /\ stores[n].taken < Len(ShippedTo(n, Store))
  /\ \E keys \in Orders(DOMAIN stores[n].backend) :
       \E R \in {store_command(State(n), stores[n],
                               ShippedTo(n, Store)[stores[n].taken + 1].id, keys)} :
         /\ Install(n, R.s) /\ Ship(n, R.s)
         /\ stores' = [stores EXCEPT ![n] = [R.st EXCEPT !.taken = @ + 1]]
  /\ UNCHANGED <<next_batch, published>>

\* Self with a logger subscribed to the store events and the master of
\* store "f" on the master topic.
master_node ==
  with_store_subscriber(
    with_subscriber(new_state(Self, BatchOptions, {T_store_events, T_master}),
                    {T_store_events}, 0),
    {T_master}, 0)

InitMaster ==
  /\ peers_modelled = FALSE
  /\ \E st \in {[n \in Nodes |->
                   IF n = Self THEN master_node
                   ELSE new_state(n, BatchOptions, {})]} :
       InstalledCores(st)
  /\ stores = [n \in Nodes |->
                 IF n = Self THEN [new_store EXCEPT !.role = "master"]
                 ELSE new_store]

NextMaster ==
  \/ \E cmd \in StoreCommands : StoreRequest(Self, cmd)
  \/ \E cmd \in StoreCommands :
       PublishLocal(Self, make_content(cmd, "command", T_master))
  \/ StoreTake(Self)
  \/ \E s \in OutSlots(Self) : HandleAckBatch(Self, s, 1)

SpecMaster == InitMaster /\ [][NextMaster]_vars

\* ---- a master and a clone on two peered endpoints ------------------------

Earth == "n0"

Mars == "n1"

\* Endpoint n with a logger and a store actor on topic t, peered with p
\* whose filter is f; every path holds MaxCredit.
store_node(n, t, p, f) ==
  peered_with(
    with_store_subscriber(
      with_subscriber(new_state(n, BatchOptions, {T_store_events, t}),
                      {T_store_events}, MaxCredit),
      {t}, MaxCredit),
    p, f, 3, MaxCredit)

InitClone ==
  /\ peers_modelled = TRUE
  /\ \E st \in {[n \in Nodes |->
                   IF n = Earth
                   THEN store_node(n, T_master, Mars, {T_store_events, T_clone})
                   ELSE IF n = Mars
                   THEN store_node(n, T_clone, Earth, {T_store_events, T_master})
                   ELSE new_state(n, BatchOptions, {})]} :
       InstalledCores(st)
  /\ stores = [n \in Nodes |->
                 IF n = Earth THEN [new_store EXCEPT !.role = "master"]
                 ELSE new_store]

\* What the user of the master and the user of the clone put.
MasterPuts ==
  {put_command("test", "123", none, Frontend),
   put_command("test", "456", none, Frontend)}

ClonePuts == {put_command("user", "neverlord", none, make_entity_id("n1", "1"))}

\* A clone attaches on endpoint n: it asks the master for a snapshot.
AttachClone(n) ==
  /\ stores[n].role = "none"
  /\ \E R \in {publish(State(n), make_content(snapshot_request, "command", T_master))} :
       Install(n, R) /\ Ship(n, R)
  /\ stores' = [stores EXCEPT ![n].role = "attaching"]
  /\ UNCHANGED <<next_batch, published>>

\* The user of the clone on endpoint n issues cmd: the clone passes it on
\* to the master.
CloneRequest(n, cmd) ==
  /\ published < MaxStoreOps
  /\ stores[n].role \in {"attaching", "clone"}
  /\ \E R \in {publish(State(n), make_content(cmd, "command", T_master))} :
       Install(n, R) /\ Ship(n, R)
  /\ stores' = [stores EXCEPT ![n].forwarded = Append(@, cmd)]
  /\ published' = published + 1
  /\ UNCHANGED next_batch

\* The sink of an outbound path that ran out of credit acknowledges what
\* it got with MaxCredit new credit.
Replenish(n, slot) ==
  /\ owner(State(n), slot) # "none"
  /\ out_[n][owner(State(n), slot)].paths[slot].credit = 0
  /\ HandleAckBatch(n, slot, MaxCredit)

NextClone ==
  \/ \E cmd \in MasterPuts : StoreRequest(Earth, cmd)
  \/ AttachClone(Mars)
  \/ \E cmd \in ClonePuts : CloneRequest(Mars, cmd)
  \/ \E n \in {Earth, Mars} : StoreTake(n)
  \/ \E l \in Links : DeliverBatch(l[1], l[2])
  \/ \E n \in {Earth, Mars} : \E s \in OutSlots(n) : Replenish(n, s)

SpecClone == InitClone /\ [][NextClone]_vars

\* ---- threads on the wake/notify pipe ------------------------------------

FlareOps == {"fire", "extinguish", "extinguish_one"}

\* Thread t calls an operation of the flare.
Call(t, op) ==
  /\ flare.thread[t].op = "idle"
  /\ flare' = [flare EXCEPT !.thread[t] = [op |-> op, ret |-> null]]
  /\ UNCHANGED endpoint_vars

\* Thread t runs one iteration of the loop of its operation; a signal may
\* interrupt the system call.
Iterate(t, interrupted) ==
  /\ flare.thread[t].op # "idle"
  /\ interrupted => flare.signals < MaxSignals
  /\ LET op == flare.thread[t].op
         r == IF op = "fire" THEN fire(flare.pipe, interrupted)
              ELSE IF op = "extinguish" THEN extinguish(flare.pipe, interrupted)
              ELSE extinguish_one(flare.pipe, interrupted)
     IN flare' = [flare EXCEPT
                    !.pipe = r.pipe,
                    !.thread[t] = IF r.done THEN [op |-> "idle", ret |-> r.ret] ELSE @,
                    !.signals = IF interrupted THEN @ + 1 ELSE @]
  /\ UNCHANGED endpoint_vars

\* A thread in an operation goes on.
Run(t) == \E interrupted \in BOOLEAN : Iterate(t, interrupted)

NextFlare ==
  \/ \E t \in Threads : \E op \in FlareOps : Call(t, op)
  \/ \E t \in Threads : Run(t)

\* Every thread is scheduled again and again.
SpecFlare == Init /\ [][NextFlare]_vars /\ \A t \in Threads : WF_vars(Run(t))

\* ---- filter updates and rebinds on the paths of one endpoint ------------

\* The address a peer's handshake is answered from after a rebind.
Rebound == "r"

NextFilter ==
  \/ \E p \in Peers : HandlePeer(Self, p, {T_a})
  \/ \E s \in SlotIds : HandleAckOpen(Self, s, 1, null, null)
  \/ \E s \in SlotIds : \E p \in Peers : HandleAckOpen(Self, s, 1, p, Rebound)
  \/ \E p \in Peers : \E f \in {{T_b}, {T_clone}} : UpdatePeer(Self, p, f)
  \/ \E s \in SlotIds : HandleDrop(Self, s)
  \/ \E p \in Peers : Unpeer(Self, p)

SpecFilter == Init /\ [][NextFilter]_vars

\* ---- unblocking a peer whose inbound path is gone --------------------------

NextUnblock ==
  \/ \E s \in SlotIds : \E xs \in CreditBatches : HandleBatch(Self, s, xs)
  \/ \E p \in Peers : BlockPeer(Self, p)
  \/ \E p \in Peers : UnblockPeer(Self, p)
  \/ \E s \in SlotIds : HandleClose(Self, s)
  \/ \E s \in SlotIds : HandleAckBatch(Self, s, 1)

SpecUnblock == InitLocal /\ [][NextUnblock]_vars

\* ---- handshakes and path insertions that violate the protocol ------------

\* The slots a caller can pass to add_ipath and add_opath.
MaxSlotArg == 2

SlotArgs == {invalid_stream_slot} \cup 1..MaxSlotArg

\* add_opath(slot, p) is called with an invalid slot, a slot that has an
\* entry or a handle that has an entry.
AddOpath(n, slot, p) ==
  /\ \/ slot = invalid_stream_slot
     \/ slot \in DOMAIN ostream_to_peer_[n]
     \/ p \in DOMAIN hdl_to_ostream_[n]
  /\ \E R \in {add_opath(State(n), slot, p)} :
       Commit(n, R) /\ Ship(n, R)
  /\ UNCHANGED <<next_batch, published>>

\* add_ipath(slot, p) is called with an invalid slot, a slot that has an
\* entry or a handle that has an entry.
AddIpath(n, slot, p) ==
  /\ \/ slot = invalid_stream_slot
     \/ slot \in DOMAIN istream_to_hdl_[n]
     \/ p \in DOMAIN hdl_to_istream_[n]
  /\ \E R \in {add_ipath(State(n), slot, p)} :
       Commit(n, R) /\ Ship(n, R)
  /\ UNCHANGED <<next_batch, published>>

NextViolation ==
  \/ \E p \in Peers : HandlePeer(Self, p, {T_a})
  \/ \E p \in Peers : HandleOpenStreamOk(Self, p, 1)
  \/ \E s \in SlotArgs : \E p \in Peers : AddOpath(Self, s, p)
  \/ \E s \in SlotArgs : \E p \in Peers : AddIpath(Self, s, p)
  \/ \E p \in Peers : Unpeer(Self, p)

SpecViolation == Init /\ [][NextViolation]_vars

\* ---- closing one direction of a peering ------------------------------------

NextClose ==
  \/ \E p \in Peers : HandlePeer(Self, p, {T_a})
  \/ \E p \in Peers : HandleOpenStreamOk(Self, p, 1)
  \/ \E s \in SlotIds : HandleAckOpen(Self, s, 1, null, null)
  \/ \E s \in SlotIds : HandleClose(Self, s)
  \/ \E s \in SlotIds : HandleForcedClose(Self, s, "unreachable")
  \/ \E s \in SlotIds : HandleDrop(Self, s)
  \/ \E s \in SlotIds : HandleForcedDrop(Self, s, "unreachable")

SpecClose == Init /\ [][NextClose]_vars

\* ---- the active sender across peer batches, local batches and replays ----

\* The element types of the batches local publishers and strangers send.
BatchTypes == {"worker", "store", "var", "other"}

NextSender ==
  \/ \E s \in SlotIds : \E xs \in CreditBatches : HandleBatch(Self, s, xs)
  \/ \E t \in BatchTypes : HandleLocalBatch(Self, t)
  \/ \E p \in Peers : BlockPeer(Self, p)
  \/ \E p \in Peers : UnblockPeer(Self, p)
  \/ \E s \in SlotIds : HandleAckBatch(Self, s, 1)

SpecSender == InitLocal /\ [][NextSender]_vars

\* ---- local dispatch of peer batches with and without subscribers --------

\* Self is fully peered with both peers and has a worker, a store, both
\* or neither; forwarding is either on or off.
InitDispatch ==
  /\ peers_modelled = FALSE
  /\ \E fw \in BOOLEAN : \E w \in BOOLEAN : \E c \in BOOLEAN :
       \E st \in {[n \in Nodes |->
                     IF n = Self
                     THEN LET S0 == new_state(n, [forward |-> fw, ttl |-> 2], LocalFilter)
                              S1 == IF w THEN with_subscriber(S0, LocalFilter, 1) ELSE S0
                              S2 == IF c THEN with_store_subscriber(S1, LocalFilter, 1)
                                    ELSE S1
                          IN peered_with_all(S2, <<"n1", "n2">>, LocalFilter,
                                             [p \in Peers |-> 1], 1)
                     ELSE new_state(n, BatchOptions, LocalFilter)]} :
         Installed(st)

\* The batches a peer sends: data and commands, with and without the
\* clone suffix, with a TTL that expires at this hop or not.
DispatchBatches == LocalBatches \cup {<<M2, M1>>, <<M4>>}

NextDispatch ==
  \/ \E s \in SlotIds : \E xs \in DispatchBatches : HandleBatch(Self, s, xs)
  \/ \E p \in Peers : BlockPeer(Self, p)
  \/ \E p \in Peers : UnblockPeer(Self, p)
  \/ \E s \in SlotIds : HandleAckBatch(Self, s, 1)

SpecDispatch == InitDispatch /\ [][NextDispatch]_vars

\* ---- removing one peer among others ----------------------------------------

NextRemove ==
  \/ \E p \in Peers : HandlePeer(Self, p, {T_a})
  \/ \E s \in SlotIds : HandleAckOpen(Self, s, 1, null, null)
  \/ Publish(Self, LocalContent)
  \/ \E p \in Peers : BlockPeer(Self, p)
  \/ \E s \in SlotIds : HandleDrop(Self, s)
  \/ \E p \in Peers : Unpeer(Self, p)

SpecRemove == Init /\ [][NextRemove]_vars

\* ---- peering requests that cross on the wire --------------------------------

\* The users of n0 and n1 ask for a peering with each other, and so do
\* the users of n1 and n2.
CrossLinks == {l \in Links : {l[1], l[2]} \in Chain}

NextCross ==
  \/ \E l \in CrossLinks : InitiatePeering(l[1], l[2])
  \/ \E l \in Links : DeliverPeer(l[1], l[2])
  \/ \E l \in Links : DeliverOpenStreamFilter(l[1], l[2])
  \/ \E l \in Links : DeliverOpenStreamOk(l[1], l[2])
  \/ \E l \in Links : DeliverAckOpen(l[1], l[2])

\* An actor handles every message in its mailbox.
SpecCross == InitHS /\ [][NextCross]_vars /\ WF_next_batch(Deliver)

\* ------------------------------------------------------------------------
\* Properties
\* ------------------------------------------------------------------------

\* The node messages of the batches in a sequence of wire messages.
RECURSIVE Elements(_)
Elements(ws) ==
  IF ws = <<>> THEN <<>>
  ELSE (IF Head(ws).type = "batch" THEN Head(ws).xs ELSE <<>>) \o Elements(Tail(ws))

\* The subsequence of the events es of kind ev.
RECURSIVE EventsOf(_, _)
EventsOf(es, ev) ==
  IF es = <<>> THEN <<>>
  ELSE (IF Head(es).ev = ev THEN <<Head(es)>> ELSE <<>>) \o EventsOf(Tail(es), ev)

\* The batches endpoint n buffers for peer p.
Buffered(n, p) ==
  IF p \in DOMAIN blocked_msgs[n] THEN blocked_msgs[n][p] ELSE <<>>

\* The step gave an arriving batch its number.
Numbered == next_batch' = next_batch + 1

\* The step began with a call of unblock_peer(p).
Unblocking(p) == events' # <<>> /\ events'[1] = Ev("call", p, "unblock_peer", 0)

\* A batch from peer p arrives at n.
Arrival(n, p) ==
  /\ Numbered
  /\ \E s \in DOMAIN inbound_paths_[n] : \E xs \in PeerBatches :
       inbound_paths_[n][s].hdl = p /\ HandleBatch(n, s, xs)

\* Endpoint n runs handle_batch on a batch from peer p: on arrival, or
\* when it replays the batches it buffered for p.
HandlesBatchFrom(n, p) ==
  \/ Arrival(n, p)
  \/ /\ Unblocking(p)
     /\ Buffered(n, p) # <<>>
     /\ p \in DOMAIN hdl_to_istream_[n]
     /\ UnblockPeer(n, p)

\* One direction of the path table of endpoint n is a bijection.
Paired(h2s, s2h) ==
  /\ \A h \in DOMAIN h2s : h2s[h] \in DOMAIN s2h /\ s2h[h2s[h]] = h
  /\ \A s \in DOMAIN s2h : s2h[s] \in DOMAIN h2s /\ h2s[s2h[s]] = s

\* C1: in every reachable state, hdl_to_ostream_[h] = s iff
\* ostream_to_peer_[s] = h, and hdl_to_istream_[h] = s iff
\* istream_to_hdl_[s] = h, for every peer h and slot s.
C1_PathTableBijection ==
  \A n \in Nodes :
    /\ Paired(hdl_to_ostream_[n], ostream_to_peer_[n])
    /\ Paired(hdl_to_istream_[n], istream_to_hdl_[n])

\* A peer was removed abruptly while the other peer stays fully peered.
C1_Witness ==
  /\ \E i \in 1..Len(events) : events[i].ev = "peer_disconnected"
  /\ \E p \in Peers :
       /\ p \in DOMAIN hdl_to_ostream_[Self]
       /\ p \in DOMAIN hdl_to_istream_[Self]

C3_NoForwardToUpstream ==
  [][\A p \in Peers :
       HandlesBatchFrom(Self, p)
       => \A s \in DOMAIN out_[Self].peer.paths :
            out_[Self].peer.paths[s].filter[1] = address(p)
            => /\ s \in DOMAIN out_'[Self].peer.paths
               /\ Elements(net'[<<Self, p>>]) \o out_'[Self].peer.paths[s].cache
                    = out_[Self].peer.paths[s].cache
                        \o SelectTopics(new_manager("peer"),
                                        out_[Self].peer.paths[s].filter,
                                        out_[Self].peer.buf)]_vars

\* A batch from p was forwarded to the other peer while a locally
\* published message went out to p.
C3_Witness ==
  \E p \in Peers :
    /\ \E i \in 1..Len(events) :
         events[i].ev = "handle_batch" /\ events[i].hdl = p
    /\ EventsOf(events, "forward") # <<>>
    /\ \E i \in 1..Len(Elements(net[<<Self, p>>])) :
         Elements(net[<<Self, p>>])[i].id = LocalContent.id

\* C5: every copy handle_batch offers to the peer manager carries a TTL
\* that is not greater than the TTL received and is not 0, and a message
\* that arrived with TTL 0 is not offered at all.
C5_TtlOnForwarding ==
  [][\A s \in DOMAIN inbound_paths_[Self] : \A xs \in PeerBatches :
       (Numbered /\ HandleBatch(Self, s, xs))
       => \A i \in 1..Len(xs) : \A l \in Links :
            \A j \in 1..Len(Elements(net'[l])) :
              LET x == Elements(net'[l])[j]
              IN (x.id = xs[i].id /\ x.hops = xs[i].hops + 1)
                 => x.ttl <= xs[i].ttl /\ x.ttl # 0 /\ xs[i].ttl # 0]_vars

\* C7: a batch from a blocked peer p is appended to p's buffer and not
\* handled; unblock_peer(p) with p's inbound path in place handles exactly
\* the buffered batches, each once, in arrival order, and leaves p
\* unblocked with no buffer; nothing else touches the buffer.
C7_BlockUnblockFifo ==
  [][\A p \in Peers :
       /\ \A s \in DOMAIN inbound_paths_[Self] : \A xs \in PeerBatches :
            (/\ Numbered
             /\ inbound_paths_[Self][s].hdl = p
             /\ p \in blocked_peers[Self]
             /\ HandleBatch(Self, s, xs))
            => /\ Buffered(Self, p)' =
                    Append(Buffered(Self, p), Batch("peer", next_batch, xs))
               /\ EventsOf(events', "handle_batch") = <<>>
       /\ (/\ Unblocking(p)
           /\ p \in DOMAIN hdl_to_istream_[Self]
           /\ UnblockPeer(Self, p))
            => /\ EventsOf(events', "handle_batch") =
                    [i \in 1..Len(Buffered(Self, p)) |->
                       Ev("handle_batch", p, "peer", Buffered(Self, p)[i].seq)]
               /\ Buffered(Self, p)' = <<>>
               /\ p \notin blocked_peers'[Self]
       /\ Buffered(Self, p)' # Buffered(Self, p)
            => Arrival(Self, p) \/ UnblockPeer(Self, p)]_vars

\* Two batches that arrived from a blocked peer were replayed.
C7_Witness ==
  \E p \in Peers :
    /\ Len(EventsOf(events, "handle_batch")) = 2
    /\ EventsOf(events, "debug") =
         <<Ev("debug", p, "handle blocked batch", 1),
           Ev("debug", p, "handle blocked batch", 2)>>
    /\ p \notin blocked_peers[Self]

\* C9: unblock_peer(p) with p not blocked changes nothing and sends
\* nothing.
C9_UnblockNotBlockedNoop ==
  [][\A p \in Peers :
       (Unblocking(p) /\ p \notin blocked_peers[Self] /\ UnblockPeer(Self, p))
       => /\ UNCHANGED <<blocked_peers, blocked_msgs, hdl_to_ostream_,
                         ostream_to_peer_, hdl_to_istream_, istream_to_hdl_,
                         pending_connections_, out_, inbound_paths_, mailbox>>
          /\ \A l \in Links : net'[l] = <<>>
          /\ events' = <<Ev("call", p, "unblock_peer", 0)>>]_vars

\* unblock_peer ran for a peer that was not blocked while the central
\* buffer held a message.
C9_Witness ==
  \E p \in Peers :
    /\ events = <<Ev("call", p, "unblock_peer", 0)>>
    /\ out_[Self].peer.buf # <<>>
    /\ blocked_peers[Self] # {}

\* The number of copies of payload id the subscriber of endpoint n got.
Copies(n, id) == Len(SelectSeq(mailbox[n], LAMBDA e : e.x.id = id))

\* Nothing is in flight and no manager of any endpoint holds a message.
Quiescent ==
  /\ \A l \in Links : net[l] = <<>>
  /\ \A n \in Nodes : \A k \in {"peer", "worker", "store"} :
       /\ out_[n][k].buf = <<>>
       /\ \A s \in DOMAIN out_[n][k].paths : out_[n][k].paths[s].cache = <<>>

\* C2: with a TTL that reaches every endpoint, the subscriber of every
\* endpoint other than the publishing one e never holds two copies of e's
\* message, and holds exactly one once the overlay is quiescent.
C2_ExactlyOnce ==
  \A e \in Nodes : \A n \in Nodes \ {e} :
    options[e].ttl >= Cardinality(Nodes)
    => /\ Copies(n, local_content(e).id) <= 1
       /\ (Quiescent /\ \E m \in Nodes : Copies(m, local_content(e).id) > 0)
            => Copies(n, local_content(e).id) = 1

\* C4: no peer of e ever sends a copy of the message published at e back
\* to e (stated for the TTLs that expire by counting down).
C4_NoEcho ==
  \A e \in Nodes : \A p \in Nodes \ {e} :
    options[e].ttl # 0
    => \A i \in 1..Len(Elements(net[<<p, e>>])) :
         Elements(net[<<p, e>>])[i].id # local_content(e).id

\* C6: a copy of a message published with initial TTL n went through at
\* most n - 1 forwarding endpoints (none for n = 0).
C6_ForwardingBound ==
  \A l \in Links : \A i \in 1..Len(Elements(net[l])) :
    Elements(net[l])[i].hops <=
      (IF options[Self].ttl = 0 THEN 0 ELSE options[Self].ttl - 1)

\* Endpoint a has exactly one outbound path (acknowledged, with b's
\* filter) and one inbound path to b, both in the path table, and no
\* pending connection for b.
FullyPeered(a, b) ==
  /\ b \in DOMAIN hdl_to_ostream_[a]
  /\ b \in DOMAIN hdl_to_istream_[a]
  /\ b \notin DOMAIN pending_connections_[a]
  /\ {s \in DOMAIN out_[a].peer.paths : out_[a].peer.paths[s].hdl = b}
       = {hdl_to_ostream_[a][b]}
  /\ ~out_[a].peer.paths[hdl_to_ostream_[a][b]].pending
  /\ out_[a].peer.paths[hdl_to_ostream_[a][b]].filter = <<address(b), filter[b]>>
  /\ {s \in DOMAIN inbound_paths_[a] : inbound_paths_[a][s].hdl = b}
       = {hdl_to_istream_[a][b]}

\* Some message of the given type is in flight from a to b.
InFlight(a, b, type) ==
  \E i \in 1..Len(net[<<a, b>>]) : net[<<a, b>>][i].type = type

\* The handshake messages between initiator a and responder b appear in
\* protocol order: PEER carries a's filter; b's open-stream carries b's
\* filter and follows the PEER; a's open-stream (OK) follows b's; b's
\* ack-open follows a's open-stream.
HandshakeOrder(a, b) ==
  /\ \A i \in 1..Len(net[<<a, b>>]) :
       net[<<a, b>>][i].type = "peer" => net[<<a, b>>][i].filter = filter[a]
  /\ \A i \in 1..Len(net[<<b, a>>]) :
       net[<<b, a>>][i].type = "open_stream_filter"
         => net[<<b, a>>][i].filter = filter[b]
  /\ ~InFlight(b, a, "peer") /\ ~InFlight(a, b, "open_stream_filter")
  /\ ~InFlight(b, a, "open_stream_ok")
  /\ InFlight(b, a, "open_stream_filter")
       => /\ ~InFlight(a, b, "peer")
          /\ a \in DOMAIN hdl_to_ostream_[b]
          /\ b \in DOMAIN pending_connections_[a]
  /\ InFlight(a, b, "open_stream_ok")
       => /\ ~InFlight(b, a, "open_stream_filter")
          /\ b \in DOMAIN hdl_to_ostream_[a]
  /\ InFlight(b, a, "ack_open")
       => /\ ~InFlight(a, b, "open_stream_ok")
          /\ a \in DOMAIN hdl_to_istream_[b]

\* C10: after a called start_peering(b) with the two disconnected and no
\* failure or teardown, the handshake messages are exchanged in order and
\* eventually a and b are fully peered with each other, each holding the
\* other's filter for its path.
C10_HandshakeCompletes ==
  /\ [](\A l \in Pairs : HandshakeOrder(l[1], l[2]))
  /\ \A l \in Pairs :
       (l[2] \in DOMAIN pending_connections_[l[1]])
         ~> (FullyPeered(l[1], l[2]) /\ FullyPeered(l[2], l[1]))

\* All handshakes ran to the end.
C10_Witness ==
  /\ \A l \in Pairs : FullyPeered(l[1], l[2]) /\ FullyPeered(l[2], l[1])
  /\ \A l \in Links : net[l] = <<>>
  /\ Len(promises) = Cardinality(Pairs)
  /\ \A i \in 1..Len(promises) : promises[i] = <<"unit">>

\* The row of the per-peer state table endpoint n is in for peer p:
\* <<has outbound path, has inbound path, pending-connection record>>.
PeerRow(n, p) ==
  <<p \in DOMAIN hdl_to_ostream_[n],
    p \in DOMAIN hdl_to_istream_[n],
    IF p \notin DOMAIN pending_connections_[n] THEN "none"
    ELSE IF pending_connections_[n][p].slot = invalid_stream_slot THEN "invalid"
    ELSE "valid">>

\* disconnected, connecting, outbound-only, inbound-only, peered
PeerStateTable ==
  {<<FALSE, FALSE, "none">>, <<FALSE, FALSE, "invalid">>,
   <<TRUE, FALSE, "valid">>, <<FALSE, TRUE, "none">>, <<TRUE, TRUE, "none">>}

\* C11: in every reachable state, for every peer the combination (has
\* outbound path, has inbound path, pending-connection record) is one of
\* the five rows disconnected, connecting, outbound-only, inbound-only,
\* peered.
C11_PeerStateTable ==
  \A p \in Peers : PeerRow(Self, p) \in PeerStateTable

\* The step ran the user's unpeer down to remove_peer: it emitted
\* peer_removed or cannot_remove_peer.
UnpeerRan ==
  \E i \in 1..Len(events') : events'[i].ev \in {"peer_removed", "cannot_remove_peer"}

\* Endpoint n knows nothing of peer p: no path table entry in either
\* direction, no slot mapped to p, no pending connection.
Disconnected(n, p) ==
  /\ p \notin DOMAIN hdl_to_ostream_[n]
  /\ p \notin DOMAIN hdl_to_istream_[n]
  /\ \A s \in DOMAIN ostream_to_peer_[n] : ostream_to_peer_[n][s] # p
  /\ \A s \in DOMAIN istream_to_hdl_[n] : istream_to_hdl_[n][s] # p
  /\ p \notin DOMAIN pending_connections_[n]

\* C12: remove_peer(h, ...) returns true iff h had an inbound or an
\* outbound path; when it returns true, h is afterwards disconnected: no
\* path table entry maps to or from h, the fan-out has no path for h's
\* former outbound slot and there is no pending-connection record for h;
\* when it returns false, no state is changed.  Stated for the call in
\* unpeer, which reports a false result as cannot_remove_peer.
C12_RemovePeerPostcondition ==
  [][\A p \in Peers :
       (UnpeerRan /\ Unpeer(Self, p))
       => LET had == connected_to(State(Self), p)
              slot == IF p \in DOMAIN hdl_to_ostream_[Self]
                      THEN hdl_to_ostream_[Self][p] ELSE invalid_stream_slot
          IN /\ had <=> EventsOf(events', "cannot_remove_peer") = <<>>
             /\ had => /\ Disconnected(Self, p)'
                       /\ \A k \in {"peer", "worker", "store"} :
                            slot \notin DOMAIN out_'[Self][k].paths
             /\ ~had => /\ UNCHANGED <<hdl_to_ostream_, ostream_to_peer_,
                                       hdl_to_istream_, istream_to_hdl_,
                                       pending_connections_, out_, inbound_paths_,
                                       blocked_peers, blocked_msgs, quit>>
                        /\ \A l \in Links : net'[l] = <<>>]_vars

\* The removal callbacks a handler run emitted for peer p.
Callbacks(es, p) ==
  SelectSeq(es, LAMBDA e : e.ev \in {"peer_removed", "peer_disconnected"} /\ e.hdl = p)

\* The step removed the paths of peer p at endpoint n.
Removed(n, p) ==
  /\ connected_to(State(n), p)
  /\ p \notin DOMAIN hdl_to_ostream_'[n]
  /\ p \notin DOMAIN hdl_to_istream_'[n]

\* C13: a handler run that removes the paths of a peer emits exactly one
\* callback for it and a run that removes nothing emits none; the callback
\* is peer_removed for the user's unpeer and peer_disconnected with the
\* reason of the event for an inbound close, a forced close, a forced drop
\* and a failed ack-open.
C13_RemovalNotification ==
  [][\A p \in Peers :
       /\ Len(Callbacks(events', p)) = IF Removed(Self, p) THEN 1 ELSE 0
       /\ Removed(Self, p) =>
            /\ Unpeer(Self, p)
                 => Callbacks(events', p) = <<Ev("peer_removed", p, "none", 0)>>
            /\ (\E s \in SlotIds : HandleClose(Self, s))
                 => Callbacks(events', p) = <<Ev("peer_disconnected", p, "none", 0)>>
            /\ (\E s \in SlotIds : \/ HandleForcedClose(Self, s, "unreachable")
                                    \/ HandleForcedDrop(Self, s, "unreachable"))
                 => Callbacks(events', p) =
                      <<Ev("peer_disconnected", p, "unreachable", 0)>>
            /\ (\E s \in SlotIds : HandleAckOpen(Self, s, 1, null, null))
                 => Callbacks(events', p) =
                      <<Ev("peer_disconnected", p, "invalid_stream_state", 0)>>]_vars

\* A failed ack-open removed a peer that had both paths.
C13_Witness ==
  \E p \in Peers :
    /\ Callbacks(events, p) = <<Ev("peer_disconnected", p, "invalid_stream_state", 0)>>
    /\ \E l \in Links : \E i \in 1..Len(net[l]) : net[l][i].type = "forced_drop"
    /\ ~connected_to(State(Self), p)

\* C14: for every handle, null or not, that has neither an inbound nor an
\* outbound path, the user's unpeer triggers cannot_remove_peer exactly
\* once, emits neither peer_removed nor peer_disconnected and leaves the
\* path tables and the paths of all peers unchanged.
C14_UnpeerUnknown ==
  [][\A h \in Handles :
       (/\ ~connected_to(State(Self), h)
        /\ UNCHANGED <<hdl_to_ostream_, hdl_to_istream_>>
        /\ Unpeer(Self, h))
       => /\ EventsOf(events', "cannot_remove_peer")
               = <<Ev("cannot_remove_peer", h, "none", 0)>>
          /\ EventsOf(events', "peer_removed") = <<>>
          /\ EventsOf(events', "peer_disconnected") = <<>>
          /\ UNCHANGED <<ostream_to_peer_, istream_to_hdl_, out_, inbound_paths_>>]_vars

\* The node messages endpoint n holds for or has sent to its peers: the
\* central buffer and the path caches of the peer manager and the batches
\* on the wire.
PeerSide(n) ==
  {out_[n].peer.buf[i] : i \in 1..Len(out_[n].peer.buf)}
    \cup UNION {{out_[n].peer.paths[s].cache[i] :
                   i \in 1..Len(out_[n].peer.paths[s].cache)} :
                 s \in DOMAIN out_[n].peer.paths}
    \cup UNION {{Elements(net[l])[i] : i \in 1..Len(Elements(net[l]))} :
                 l \in {k \in Links : k[1] = n}}

\* The number of copies of payload id that manager k of endpoint n holds
\* or has shipped to its subscriber.
LocalCount(n, k, id) ==
  Len(SelectSeq(out_[n][k].buf, LAMBDA x : x.id = id))
    + Len(SelectSeq(mailbox[n],
                    LAMBDA e : e.x.id = id
                               /\ e.to = (IF k = "worker" THEN Worker ELSE Store)))
    + (IF DOMAIN out_[n][k].paths = {} THEN 0
       ELSE LET s == CHOOSE x \in DOMAIN out_[n][k].paths : TRUE
            IN Len(SelectSeq(out_[n][k].paths[s].cache, LAMBDA x : x.id = id)))

\* The manager a node message is dispatched to locally.
LocalManager(msg) == IF is_data_message(msg) THEN "worker" ELSE "store"

\* The step that handled xs handed every copy of xs[i] to its local
\* manager (if that one has paths) and to none else.
DeliveredLocally(n, xs, i) ==
  \A k \in {"worker", "store"} :
    LocalCount(n, k, xs[i].id)' =
      LocalCount(n, k, xs[i].id)
        + (IF k = LocalManager(xs[i]) /\ num_paths(out_[n][k]) > 0
           THEN Len(SelectSeq(xs, LAMBDA x : x.id = xs[i].id)) ELSE 0)

\* C15: a node message of a peer batch whose topic ends with the clone
\* suffix is pushed to the store manager (command) or the worker manager
\* (data) when that manager has paths and never to the peer manager, for
\* every TTL and with forwarding enabled.
C15_CloneNeverForwarded ==
  [][\A s \in DOMAIN inbound_paths_[Self] : \A xs \in LocalBatches :
       (Numbered /\ options[Self].forward /\ HandleBatch(Self, s, xs))
       => \A i \in 1..Len(xs) :
            ends_with(xs[i].topic, clone_suffix)
            => /\ DeliveredLocally(Self, xs, i)
               /\ \A j \in 1..Len(events') :
                    events'[j].ev = "forward" => events'[j].seq # xs[i].id
               /\ \A x \in PeerSide(Self)' : ~ends_with(x.topic, clone_suffix)]_vars

\* With forwarding on, a batch with a clone-suffixed data message and a
\* plain command was handled: the command was forwarded, the clone message
\* went to the worker only.
C15_Witness ==
  /\ options[Self].forward
  /\ EventsOf(events, "handle_batch") # <<>>
  /\ \E j \in 1..Len(events) : events[j].ev = "forward" /\ events[j].seq = M8.id
  /\ \E j \in 1..Len(mailbox[Self]) :
       mailbox[Self][j].to = Worker /\ mailbox[Self][j].x.id = M7.id
  /\ \E x \in PeerSide(Self) : x.id = M8.id

\* C16: with the forward option off, no node message of a peer batch is
\* pushed to the peer manager, whatever its topic and TTL, while it is
\* still handed to its local manager; only locally published messages
\* reach the peers.
C16_ForwardingDisabled ==
  [][~options[Self].forward
     => /\ \A s \in DOMAIN inbound_paths_[Self] : \A xs \in LocalBatches :
             (Numbered /\ HandleBatch(Self, s, xs))
             => /\ EventsOf(events', "forward") = <<>>
                /\ \A i \in 1..Len(xs) : DeliveredLocally(Self, xs, i)
        /\ \A x \in PeerSide(Self)' :
             x = make_node_message(LocalContent, options[Self].ttl)]_vars

\* With forwarding off, two peer batches were handed to the worker and
\* the endpoint's own message then went out to the peers.
C16_Witness ==
  /\ ~options[Self].forward
  /\ next_batch > MaxBatches
  /\ published > 0
  /\ \E j \in 1..Len(mailbox[Self]) : mailbox[Self][j].x.id = M1.id
  /\ \E x \in PeerSide(Self) : x.id = LocalContent.id

\* Endpoint u has no path to or from h and no peering with h under way.
Unpeered(u, h) ==
  ~connected_to(State(u), h) /\ h \notin DOMAIN pending_connections_[u]

\* The link CutLink is removed: one of its ends has unpeered.
Cut == Unpeered(CutLink[1], CutLink[2]) \/ Unpeered(CutLink[2], CutLink[1])

\* The endpoints on the side of n once CutLink is removed from the chain.
Component(n) == IF n = CutLink[2] THEN {CutLink[2]} ELSE Nodes \ {CutLink[2]}

\* No subscriber holds a message published in the other component.
NoCrossDelivery ==
  \A e \in Nodes : \A n \in Nodes \ Component(e) : Copies(n, local_content(e).id) = 0

\* C17: an endpoint u that unpeered from h puts no further message on the
\* wire to h and handles nothing h sends (what arrives from h changes
\* neither u's managers nor its subscriber's mailbox); once the link
\* between two components is removed, a message published afterwards in
\* one component reaches no subscriber in the other.
C17_PartitionAfterUnpeer ==
  /\ [][\A l \in {CutLink, <<CutLink[2], CutLink[1]>>} :
          Unpeered(l[1], l[2])
          => /\ Len(net'[l]) <= Len(net[l])
             /\ Len(net'[<<l[2], l[1]>>]) < Len(net[<<l[2], l[1]>>])
                  => /\ out_'[l[1]] = out_[l[1]]
                     /\ mailbox'[l[1]] = mailbox[l[1]]
                     /\ \A k \in Links : k[1] = l[1] => net'[k] = net[k]]_vars
  /\ []((Cut /\ published = 0) => []NoCrossDelivery)

\* n2 unpeered from n1, then n0 published: n1's subscriber got the message,
\* n1 and n2 know nothing of each other any more, nothing is in flight and
\* n2's subscriber got nothing.
C17_Witness ==
  /\ Unpeered(CutLink[1], CutLink[2]) /\ Unpeered(CutLink[2], CutLink[1])
  /\ published = 1
  /\ Copies(CutLink[1], local_content("n0").id) = 1
  /\ Copies(CutLink[2], local_content("n0").id) = 0
  /\ \A l \in Links : net[l] = <<>>

\* Every path of the tree records the filter the propagated subscriptions
\* give it.
Propagated ==
  \A l \in TreeLinks :
    /\ l[2] \in DOMAIN hdl_to_ostream_[l[1]]
    /\ out_[l[1]].peer.paths[hdl_to_ostream_[l[1]][l[2]]].filter[2]
         = routed_filter(l[1], l[2])

\* The endpoint whose subscription matches what e publishes.
Target(e) == CHOOSE n \in Nodes : prefix_matcher(TreeFilter[n], TreeTopic[e])

\* What is on the wire went out on a path whose recorded filter matches
\* its topic, and what a subscriber got matches its filter.
RoutedByFilter ==
  /\ \A l \in Links : \A i \in 1..Len(Elements(net[l])) :
       /\ l[2] \in DOMAIN hdl_to_ostream_[l[1]]
       /\ prefix_matcher(out_[l[1]].peer.paths[hdl_to_ostream_[l[1]][l[2]]].filter[2],
                         Elements(net[l])[i].topic)
  /\ \A n \in Nodes : \A i \in 1..Len(mailbox[n]) :
       prefix_matcher(filter[n], mailbox[n][i].x.topic)

\* No subscriber but the target of a message holds it, the target holds
\* no more copies than were published, and once the overlay is quiescent
\* every published message was received once.
TreeDelivery ==
  /\ \A e \in Nodes : \A n \in Nodes \ {Target(e)} : Copies(n, tree_content(e).id) = 0
  /\ \A e \in Nodes : Copies(Target(e), tree_content(e).id) <= published
  /\ Quiescent =>
       Copies(Target("n0"), tree_content("n0").id)
         + Copies(Target("n1"), tree_content("n1").id)
         + Copies(Target("n2"), tree_content("n2").id) = published

PathIds(xs) == [i \in 1..Len(xs) |-> xs[i].id]

\* What endpoint n still has to emit on its peer path s, oldest first: the
\* cache of the path, then the pieces of the central buffer (filled by
\* local publishes) its filter accepts.
Pipeline(n, s) ==
  PathIds(out_[n].peer.paths[s].cache
            \o SelectTopics(new_manager("peer"), out_[n].peer.paths[s].filter,
                            out_[n].peer.buf))

\* What the step pushed into the peer manager for path s, in push order:
\* the forwards of the batches it handled (none for the path of their
\* sender), or the message it published.  Every topic of OrderBatches and
\* of LocalContent passes the filter of every path.
Pushed(n, s) ==
  IF EventsOf(events', "forward") # <<>>
  THEN IF out_[n].peer.paths[s].filter[1]
            = address(EventsOf(events', "handle_batch")[1].hdl)
       THEN <<>>
       ELSE [i \in 1..Len(EventsOf(events', "forward")) |->
               EventsOf(events', "forward")[i].seq]
  ELSE IF published' > published THEN <<LocalContent.id>>
  ELSE <<>>

\* C19: on every outbound peer path, what a step emits followed by what
\* the path still holds is what the path held before followed by what the
\* step pushed, in push order: messages leave a path in the order they
\* were pushed into the peer manager, local and forwarded ones alike,
\* across the flushes of handle_batch and across credit stalls.
C19_PerChannelOrdering ==
  [][\A s \in DOMAIN out_[Self].peer.paths \cap DOMAIN out_'[Self].peer.paths :
       PathIds(Elements(net'[<<Self, out_[Self].peer.paths[s].hdl>>]))
           \o Pipeline(Self, s)'
         = Pipeline(Self, s) \o Pushed(Self, s)]_vars

\* A path without credit holds the endpoint's own message followed by two
\* messages forwarded from one batch.
C19_Witness ==
  \E s \in DOMAIN out_[Self].peer.paths :
    /\ Len(out_[Self].peer.paths[s].cache) >= 3
    /\ out_[Self].peer.paths[s].cache[1].id = LocalContent.id
    /\ Len(EventsOf(events, "forward")) >= 2

\* No manager of endpoint n holds a message, in its central buffer or in
\* a path cache.
NoWork(n) ==
  \A k \in {"peer", "worker", "store"} :
    /\ out_[n][k].buf = <<>>
    /\ \A s \in DOMAIN out_[n][k].paths : out_[n][k].paths[s].cache = <<>>

\* Some manager of endpoint n is filled to its capacity and no path of n
\* has credit.
Stalled(n) ==
  /\ \E k \in {"peer", "worker", "store"} :
       \/ Len(out_[n][k].buf) >= 2 * DesiredBatchSize
       \/ \E s \in DOMAIN out_[n][k].paths :
            Len(out_[n][k].buf) + Len(out_[n][k].paths[s].cache)
              >= 2 * DesiredBatchSize
  /\ \A k \in {"peer", "worker", "store"} : \A s \in DOMAIN out_[n][k].paths :
       out_[n][k].paths[s].credit = 0

Backlog(n, k, s) ==
  PathIds(out_[n][k].paths[s].cache
            \o SelectTopics(new_manager(k), out_[n][k].paths[s].filter,
                            out_[n][k].buf))

\* What the step emitted on path s of manager k: the batches on the wire
\* to the peer, or what the local subscriber received.
EmittedOn(n, k, s) ==
  IF k = "peer"
  THEN PathIds(Elements(SelectSeq(net'[<<n, out_[n][k].paths[s].hdl>>],
                                  LAMBDA w : w.slot = s)))
  ELSE LET new == SubSeq(mailbox'[n], Len(mailbox[n]) + 1, Len(mailbox'[n]))
       IN [i \in 1..Len(SelectSeq(new, LAMBDA e : e.to = out_[n][k].paths[s].hdl)) |->
             SelectSeq(new, LAMBDA e : e.to = out_[n][k].paths[s].hdl)[i].x.id]

\* The elements of xs of the kind manager k takes.
OfKind(k, xs) ==
  PathIds(SelectSeq(xs, LAMBDA x : LocalManager(x) = k))

\* The step called local_push.
LocalPushes == EventsOf(events', "local_push")

\* What the step pushed into manager k for its path s while it handled
\* the batch xs (<<>> if it handled none).
PushedInto(n, k, s, xs) ==
  IF k = "peer"
  THEN IF LocalPushes # <<>> THEN <<>> ELSE Pushed(n, s)
  ELSE IF LocalPushes # <<>>
       THEN IF LocalPushes[1].reason = (IF k = "worker" THEN "data" ELSE "command")
            THEN <<LocalPushes[1].seq>> ELSE <<>>
       ELSE OfKind(k, xs)

\* The credit path s of manager k has after a step, given what it had,
\* what was granted and what was emitted.
CreditSpent(n, k, s) ==
  /\ Len(EmittedOn(n, k, s)) + out_'[n][k].paths[s].credit
       <= out_[n][k].paths[s].credit + 1
  /\ (Len(EmittedOn(n, k, s)) + out_'[n][k].paths[s].credit
        > out_[n][k].paths[s].credit)
       => /\ UNCHANGED <<next_batch, published>>
          /\ \A j \in {"peer", "worker", "store"} :
               \A t \in (DOMAIN out_[n][j].paths \cap DOMAIN out_'[n][j].paths)
                         \ {s} :
                 out_'[n][j].paths[t].credit <= out_[n][j].paths[t].credit

\* Every path of endpoint n that lasts through the step keeps what it has
\* to emit: what the step emitted on it, followed by what it still holds,
\* is what it held followed by what was pushed for it.
NothingDropped(n, xs) ==
  \A k \in {"peer", "worker", "store"} :
    \A s \in DOMAIN out_[n][k].paths \cap DOMAIN out_'[n][k].paths :
      EmittedOn(n, k, s) \o Backlog(n, k, s)' = Backlog(n, k, s) \o PushedInto(n, k, s, xs)

\* C21: on every outbound path the elements a step emits are covered by
\* the credit of the path (what it held plus what the step granted, and
\* only one path is granted credit at a time); a message pushed for a
\* path is emitted or stays in the backlog of the path, whatever its
\* credit; and while the sink keeps granting credit, every backlog is
\* emitted eventually unless the path is removed.
C21_CreditAwareLossless ==
  /\ [][\A k \in {"peer", "worker", "store"} :
         \A s \in DOMAIN out_[Self][k].paths \cap DOMAIN out_'[Self][k].paths :
           CreditSpent(Self, k, s)]_vars
  /\ [][/\ ~Numbered => NothingDropped(Self, <<>>)
        /\ Numbered =>
             \A s0 \in DOMAIN inbound_paths_[Self] : \A xs \in CreditBatches :
               HandleBatch(Self, s0, xs) => NothingDropped(Self, xs)]_vars
  /\ <>[](\A k \in {"peer", "worker", "store"} :
            \A s \in DOMAIN out_[Self][k].paths : Backlog(Self, k, s) = <<>>)

\* A worker path and a peer path without credit hold a backlog of two
\* messages each.
C21_Witness ==
  /\ \E s \in DOMAIN out_[Self].worker.paths :
       out_[Self].worker.paths[s].credit = 0 /\ Len(Backlog(Self, "worker", s)) >= 2
  /\ \E s \in DOMAIN out_[Self].peer.paths :
       out_[Self].peer.paths[s].credit = 0 /\ Len(Backlog(Self, "peer", s)) >= 2

\* C22: in every reachable state the peer manager holds a path (with its
\* per-path filter) for slot s iff s is recorded as the outbound slot of
\* a peer in the path table, whichever handler ran last: start_handshake,
\* remove_peer, close, forced_close, forced_drop or a graceful drop.
C22_FilterLifetime ==
  \A s \in SlotIds :
    s \in DOMAIN out_[Self].peer.paths <=> s \in DOMAIN ostream_to_peer_[Self]

\* The managers of endpoint n that hold a path for slot s.
Owners(n, s) == {k \in {"peer", "worker", "store"} : s \in DOMAIN out_[n][k].paths}

\* C23: every slot a manager holds is held by exactly one manager; every
\* slot of the peer manager has a per-path filter whose first component
\* is the address of the peer the path leads to; and no slot of the
\* worker or store manager (created by add_worker or add_store) is held
\* by the peer manager or recorded in the peer path table.
C23_SlotOwnership ==
  \A s \in SlotIds :
    /\ Cardinality(Owners(Self, s)) <= 1
    /\ s \in DOMAIN out_[Self].peer.paths
         => out_[Self].peer.paths[s].filter[1] = address(out_[Self].peer.paths[s].hdl)
    /\ (s \in DOMAIN out_[Self].worker.paths \/ s \in DOMAIN out_[Self].store.paths)
         => /\ s \notin DOMAIN out_[Self].peer.paths
            /\ s \notin DOMAIN ostream_to_peer_[Self]

\* The step called block_peer or unblock_peer: only these change the
\* blocked set.
Blocking == blocked_peers' # blocked_peers

\* C24: a batch that arrives from a blocked peer p is appended whole to
\* blocked_msgs[p], and the step pushes nothing: no handle_batch and no
\* forward is logged, and every path of the worker, store and peer
\* managers emits and keeps just what it held; buffered batches leave
\* blocked_msgs[p] only in unblock_peer(p).  Blocking p changes only the
\* blocked set, and a publish reaches a blocked peer as it would reach the
\* peer unblocked.
C24_BlockedPeerBuffering ==
  [][\A p \in Peers :
       /\ \A s \in DOMAIN inbound_paths_[Self] : \A xs \in CreditBatches :
            (/\ Numbered
             /\ inbound_paths_[Self][s].hdl = p
             /\ p \in blocked_peers[Self]
             /\ HandleBatch(Self, s, xs))
            => /\ Buffered(Self, p)' =
                    Append(Buffered(Self, p), Batch("peer", next_batch, xs))
               /\ EventsOf(events', "handle_batch") = <<>>
               /\ EventsOf(events', "forward") = <<>>
               /\ \A k \in {"peer", "worker", "store"} :
                    \A t \in DOMAIN out_[Self][k].paths :
                      /\ t \in DOMAIN out_'[Self][k].paths
                      /\ EmittedOn(Self, k, t) \o Backlog(Self, k, t)'
                           = Backlog(Self, k, t)
       /\ (p \in blocked_peers[Self] /\ ~Unblocking(p))
            => /\ Len(Buffered(Self, p)') >= Len(Buffered(Self, p))
               /\ SubSeq(Buffered(Self, p)', 1, Len(Buffered(Self, p)))
                    = Buffered(Self, p)
       /\ (Blocking /\ ~Unblocking(p) /\ BlockPeer(Self, p))
            => /\ blocked_peers'[Self] = blocked_peers[Self] \cup {p}
               /\ UNCHANGED <<hdl_to_ostream_, ostream_to_peer_, hdl_to_istream_,
                              istream_to_hdl_, out_, inbound_paths_, blocked_msgs,
                              mailbox>>
               /\ \A l \in Links : net'[l] = <<>>
       /\ (published' > published /\ p \in blocked_peers[Self])
            => /\ out_'[Self] =
                    publish([State(Self) EXCEPT !.blocked_peers = {}], LocalContent).out_
               /\ net'[<<Self, p>>] =
                    SentTo(publish([State(Self) EXCEPT !.blocked_peers = {}],
                                   LocalContent).sent, p)]_vars

\* A batch from a blocked peer is buffered, no subscriber received
\* anything, and the endpoint's own message went out to the blocked peer.
C24_Witness ==
  \E p \in Peers :
    /\ p \in blocked_peers[Self]
    /\ Len(Buffered(Self, p)) >= 1
    /\ mailbox[Self] = <<>>
    /\ \E i \in 1..Len(Elements(net[<<Self, p>>])) :
         Elements(net[<<Self, p>>])[i].id = LocalContent.id

\* C25: start_peering with a null remote delivers invalid_argument on the
\* reply promise and changes nothing else: no pending-connection record,
\* no message on the wire, no monitor, and the path tables, the managers
\* and the inbound paths are unchanged.
C25_StartPeeringNull ==
  [][(Len(promises') > Len(promises) /\ StartPeering(Self, null))
     => /\ promises' = Append(promises, <<"invalid_argument">>)
        /\ \A l \in Links : net'[l] = <<>>
        /\ events' = <<Ev("trace", null, "start_peering", 0)>>
        /\ UNCHANGED <<pending_connections_, hdl_to_ostream_, ostream_to_peer_,
                       hdl_to_istream_, istream_to_hdl_, out_, inbound_paths_,
                       blocked_peers, blocked_msgs, quit>>]_vars

\* An endpoint with a connected peer answered a request for a null
\* remote with invalid_argument.
C25_Witness ==
  /\ events = <<Ev("trace", null, "start_peering", 0)>>
  /\ promises = <<<<"invalid_argument">>>>
  /\ \E p \in Peers : connected_to(State(Self), p)
  /\ pending_connections_[Self] = EmptyMap

\* The step ran a remove_peer call that removed at least one path.
PathRemoved == EventsOf(events', "cache_remove") # <<>>

\* C26: a remove_peer call that removes at least one path makes the actor
\* quit exactly when the endpoint is shutting down and no outbound path of
\* a peer is recorded after the removal; in every other case (not
\* shutting down, or outbound paths remain) the actor does not quit and
\* push() is called.
C26_ShutdownTrigger ==
  [][PathRemoved
     => /\ quit'[Self] <=> (shutting_down[Self] /\ DOMAIN hdl_to_ostream_'[Self] = {})
        /\ ~quit'[Self] <=> EventsOf(events', "push") # <<>>]_vars

\* The endpoint was shutting down and the removal of its last peer made
\* the actor quit.
C26_Witness ==
  /\ quit[Self]
  /\ shutting_down[Self]
  /\ EventsOf(events, "quit") # <<>>
  /\ EventsOf(events, "cache_remove") # <<>>
  /\ hdl_to_ostream_[Self] = EmptyMap
  /\ inbound_paths_[Self] = EmptyMap

\* ---- C27 ----------------------------------------------------------------

\* The store events of endpoint n in the order of their emission: those the
\* logger got, then those the worker manager still holds for it.
StoreEvents(n) ==
  LET m == out_[n].worker
      held == IF DOMAIN m.paths = {} THEN <<>>
              ELSE m.paths[CHOOSE s \in DOMAIN m.paths : TRUE].cache
      all == ShippedTo(n, Worker) \o held \o m.buf
  IN [i \in 1..Len(all) |-> all[i].id]

\* C27: the master emits exactly one store event per effective mutation,
\* in mutation order, and no step but a mutation emits one: a put to an
\* absent key emits insert(key, value), a put to a present key emits
\* update(key, old value, new value), whether the put came through the
\* store handle or as a command published on the master topic; an erase of
\* a present key emits erase(key) and one of an absent key nothing; clear
\* emits one erase for each key that was present.  After the mutation a get
\* gives the value put, and no-such-key for every erased key.
C27_StoreEventSequence ==
  [][LET cmds == EventsOf(events', "command")
         b == stores[Self].backend
         old == StoreEvents(Self)
         now == StoreEvents(Self)'
         new == SubSeq(now, Len(old) + 1, Len(now))
     IN /\ Len(now) >= Len(old)
        /\ SubSeq(now, 1, Len(old)) = old
        /\ cmds = <<>> => new = <<>>
        /\ cmds # <<>> =>
             LET cmd == cmds[1].seq
             IN /\ (cmd[1] = "put" /\ cmd[2] \notin DOMAIN b) =>
                     /\ Len(new) = 1
                     /\ SubSeq(new[1], 1, 3) = <<"insert", cmd[2], cmd[3]>>
                /\ (cmd[1] = "put" /\ cmd[2] \in DOMAIN b) =>
                     /\ Len(new) = 1
                     /\ SubSeq(new[1], 1, 4) = <<"update", cmd[2], b[cmd[2]], cmd[3]>>
                /\ cmd[1] = "put" => get(stores'[Self], cmd[2]) = cmd[3]
                /\ (cmd[1] = "erase" /\ cmd[2] \in DOMAIN b) =>
                     /\ Len(new) = 1
                     /\ SubSeq(new[1], 1, 2) = <<"erase", cmd[2]>>
                /\ (cmd[1] = "erase" /\ cmd[2] \notin DOMAIN b) => new = <<>>
                /\ cmd[1] = "erase" => get(stores'[Self], cmd[2]) = "no_such_key"
                /\ cmd[1] = "clear" =>
                     /\ Len(new) = Cardinality(DOMAIN b)
                     /\ \A k \in DOMAIN b :
                          /\ \E i \in 1..Len(new) : SubSeq(new[i], 1, 2) = <<"erase", k>>
                          /\ get(stores'[Self], k) = "no_such_key"
    ]_vars

\* The logger saw insert(hello, world), update(hello, world, universe) and
\* erase(hello), the update for a put that came over the master topic, and
\* get(hello) fails.
C27_Witness ==
  LET log == ShippedTo(Self, Worker)
  IN /\ Len(log) = 3
     /\ SubSeq(log[1].id, 1, 3) = <<"insert", "hello", "world">>
     /\ SubSeq(log[2].id, 1, 4) = <<"update", "hello", "world", "universe">>
     /\ SubSeq(log[3].id, 1, 2) = <<"erase", "hello">>
     /\ stores[Self].taken = 1
     /\ get(stores[Self], "hello") = "no_such_key"

\* ---- C29 ----------------------------------------------------------------

\* The emit_*_event calls of the last store actor run.
Emits ==
  SelectSeq(events, LAMBDA e : e.ev \in {"emit_insert_event", "emit_update_event",
                                         "emit_erase_event"})

\* The last two slots of vector xs hold publisher p: its endpoint in data
\* form and its object, or two nils if p is invalid or its endpoint has no
\* data form.
PublisherSlots(xs, p) ==
  /\ (xs[Len(xs) - 1] = nil) <=> (xs[Len(xs)] = nil)
  /\ IF p.endpoint = none \/ p.endpoint \notin Convertible
     THEN xs[Len(xs) - 1] = nil /\ xs[Len(xs)] = nil
     ELSE xs[Len(xs) - 1] = p.endpoint /\ xs[Len(xs)] = p.object

\* Slot i of vector xs holds the optional x: its value, or one nil.
OptionalSlot(xs, i, x) == xs[i] = (IF x = none THEN nil ELSE x)

EventCore(xs) ==
  IF xs[1] = "insert" THEN SubSeq(xs, 1, 3)
  ELSE IF xs[1] = "update" THEN SubSeq(xs, 1, 4)
  ELSE SubSeq(xs, 1, 2)

\* The store events the logger of endpoint n observed.
EventLog(n) ==
  [i \in 1..Len(ShippedTo(n, Worker)) |-> EventCore(ShippedTo(n, Worker)[i].id)]

\* Nothing is in flight or buffered, the store actors took every command
\* of their streams, and the clone has its snapshot.
StoresQuiescent ==
  /\ \A l \in Links : net[l] = <<>>
  /\ \A n \in {Earth, Mars} : \A k \in {"peer", "worker", "store"} :
       /\ out_[n][k].buf = <<>>
       /\ \A s \in DOMAIN out_[n][k].paths : out_[n][k].paths[s].cache = <<>>
  /\ \A n \in {Earth, Mars} : stores[n].taken = Len(ShippedTo(n, Store))
  /\ stores[Mars].role = "clone"

\* The store a sequence of store events accounts for.
RECURSIVE Replay(_)
Replay(es) ==
  IF es = <<>> THEN EmptyMap
  ELSE LET b == Replay(SubSeq(es, 1, Len(es) - 1))
           e == es[Len(es)]
       IN IF e[1] = "insert" THEN MapSet(b, e[2], e[3])
          ELSE IF e[1] = "update" THEN MapSet(b, e[2], e[4])
          ELSE MapErase(b, e[2])

\* The keys of the store agree at master and clone, and what the clone
\* passed on is what the master took as puts, in order, and is readable at
\* both.
StoresAgree ==
  /\ \A k \in {"test", "user"} : get(stores[Earth], k) = get(stores[Mars], k)
  /\ SelectSeq([i \in 1..Len(ShippedTo(Earth, Store)) |-> ShippedTo(Earth, Store)[i].id],
               LAMBDA c : c[1] = "put")
       = stores[Mars].forwarded
  /\ stores[Mars].forwarded # <<>> =>
       /\ get(stores[Earth], "user") = "neverlord"
       /\ get(stores[Mars], "user") = "neverlord"

\* The clone's log is one insert per key of the store that some prefix of
\* the master's log accounts for, followed by the rest of the master's
\* log.
LogFollowsSnapshot ==
  LET L0 == EventLog(Earth)
  IN \E i \in 0..Len(L0) :
       LET b == Replay(SubSeq(L0, 1, i))
       IN \E keys \in Orders(DOMAIN b) :
            EventLog(Mars)
              = [j \in 1..Len(keys) |-> <<"insert", keys[j], b[keys[j]]>>]
                  \o SubSeq(L0, i + 1, Len(L0))

Returns(t, op) == flare.thread[t].op = op /\ flare'.thread[t].op = "idle"

\* C30: the pipe is a saturating byte counter under any interleaving of
\* the operations of different threads.  Every fire() terminates; when it
\* returns, its write has added exactly one byte, or none if the pipe was
\* full, and the pipe holds at least one byte.  Every extinguish_one()
\* terminates; when it returns, it has removed exactly one byte and gives
\* true if a byte was there, and has removed nothing and gives false if
\* the pipe was empty.  extinguish() returns only from a read that found
\* the pipe empty.  While no thread is in extinguish(), an iteration that
\* does not return leaves the pipe as it is.
C30_SaturatingCounter ==
  /\ [](flare.pipe \in 0..PipeCapacity)
  /\ [][\A t \in Threads :
          /\ Returns(t, "fire") =>
               /\ flare'.pipe >= 1
               /\ flare'.pipe = IF flare.pipe < PipeCapacity
                                THEN flare.pipe + 1 ELSE flare.pipe
          /\ Returns(t, "extinguish_one") =>
               /\ flare.pipe > 0 =>
                    flare'.pipe = flare.pipe - 1 /\ flare'.thread[t].ret = "true"
               /\ flare.pipe = 0 =>
                    flare'.pipe = 0 /\ flare'.thread[t].ret = "false"
          /\ Returns(t, "extinguish") => flare.pipe = 0 /\ flare'.pipe = 0
          /\ ((\A u \in Threads : flare.thread[u].op # "extinguish")
                /\ flare'.thread = flare.thread) =>
               flare'.pipe = flare.pipe
       ]_vars
  /\ \A t \in Threads :
       /\ (flare.thread[t].op = "fire") ~> (flare.thread[t].op = "idle")
       /\ (flare.thread[t].op = "extinguish_one") ~> (flare.thread[t].op = "idle")

\* The pipe is full, one thread got true from extinguish_one(), and
\* another is in fire() after an interrupted write while a third is in
\* extinguish_one().
C30_Witness ==
  /\ flare.pipe = PipeCapacity
  /\ flare.signals > 0
  /\ \E t1, t2, t3 \in Threads :
       /\ flare.thread[t1] = [op |-> "idle", ret |-> "true"]
       /\ flare.thread[t2].op = "fire"
       /\ flare.thread[t3].op = "extinguish_one"

\* ---- C31 ----------------------------------------------------------------

\* Endpoint n has an outbound path to peer p.
HasOutboundPath(n, p) ==
  \E s \in DOMAIN out_[n].peer.paths : out_[n].peer.paths[s].hdl = p

\* The path tables of endpoint n.
PathTables(n) ==
  <<hdl_to_ostream_[n], ostream_to_peer_[n], hdl_to_istream_[n], istream_to_hdl_[n]>>

\* The step changes, of the paths of endpoint n, only the fields `fields`
\* of the peer path on slot s.
OnlyPathChanged(n, s, fields) ==
  /\ DOMAIN out_'[n].peer.paths = DOMAIN out_[n].peer.paths
  /\ \A t \in DOMAIN out_[n].peer.paths :
       \A x \in DOMAIN out_[n].peer.paths[t] :
         (t # s \/ x \notin fields) =>
           out_'[n].peer.paths[t][x] = out_[n].peer.paths[t][x]
  /\ out_'[n].worker = out_[n].worker
  /\ out_'[n].store = out_[n].store
  /\ PathTables(n)' = PathTables(n)

\* What a step of update_peer or of an ack-open with a rebind does.
FilterUpdateFrame ==
  /\ \A p \in Peers : \A f \in {{T_b}, {T_clone}} :
       UpdatePeer(Self, p, f) =>
         IF HasOutboundPath(Self, p)
         THEN \E s \in DOMAIN out_[Self].peer.paths :
                /\ out_[Self].peer.paths[s].hdl = p
                /\ OnlyPathChanged(Self, s, {"filter"})
                /\ out_'[Self].peer.paths[s].filter
                     = <<out_[Self].peer.paths[s].filter[1], f>>
         ELSE /\ ~update_peer(State(Self), p, f).r
              /\ out_'[Self] = out_[Self]
              /\ PathTables(Self)' = PathTables(Self)
  /\ \A s \in DOMAIN out_[Self].peer.paths : \A p \in Peers :
       (out_[Self].peer.paths[s].pending /\ HandleAckOpen(Self, s, 1, p, Rebound)) =>
         /\ OnlyPathChanged(Self, s, {"filter", "pending", "credit"})
         /\ out_'[Self].peer.paths[s].filter
              = <<Rebound, out_[Self].peer.paths[s].filter[2]>>

\* C31: update_peer(h, f) on a peer with an outbound path replaces only
\* the filter component of h's per-path state and keeps its sender
\* address; an ack-open success with a rebind replaces only the sender
\* address of that slot and keeps its filter; both leave every other
\* path's state and the path tables unchanged; update_peer on a peer
\* without outbound path returns false and changes nothing.
C31_FilterUpdateFrame == [][FilterUpdateFrame]_vars


\* C32: when unblock_peer(p) is called and p has buffered batches but no
\* inbound path any more, the batches are discarded: the step logs no
\* handle_batch and no forward, no subscriber receives anything, nothing
\* goes on the wire, and the managers and the path tables are as they
\* were; afterwards p is not blocked and has no buffered batches.
C32_UnblockWithoutPath ==
  [][\A p \in Peers :
       (/\ Unblocking(p)
        /\ p \in DOMAIN blocked_msgs[Self]
        /\ p \notin DOMAIN hdl_to_istream_[Self])
       => /\ EventsOf(events', "handle_batch") = <<>>
          /\ EventsOf(events', "forward") = <<>>
          /\ mailbox' = mailbox
          /\ \A l \in Links : net'[l] = <<>>
          /\ UNCHANGED <<out_, inbound_paths_, hdl_to_ostream_, ostream_to_peer_,
                         hdl_to_istream_, istream_to_hdl_>>
          /\ p \notin blocked_peers'[Self]
          /\ p \notin DOMAIN blocked_msgs'[Self]
          /\ blocked_msgs'[Self] = MapErase(blocked_msgs[Self], p)]_vars

\* A peer's batches were buffered, its inbound path was closed, and the
\* peer was unblocked: the batches are gone and nobody received them.
C32_Witness ==
  \E p \in Peers :
    /\ events # <<>> /\ events[1] = Ev("call", p, "unblock_peer", 0)
    /\ EventsOf(events, "debug") # <<>>
    /\ EventsOf(events, "debug")[1].reason = "dropped batches after unblocking peer"
    /\ p \notin DOMAIN hdl_to_istream_[Self]
    /\ p \notin DOMAIN blocked_msgs[Self]
    /\ p \notin blocked_peers[Self]
    /\ mailbox[Self] = <<>>


\* The handling of an ack-open for slot s at endpoint n fails: no nested
\* manager holds a path s that waits for its handshake.
AckOpenFails(n, s) ==
  ~(owner(State(n), s) # "none" /\ out_[n][owner(State(n), s)].paths[s].pending)

\* The four maps of the path table of endpoint n are unchanged.
TablesUnchanged(n) ==
  /\ hdl_to_ostream_'[n] = hdl_to_ostream_[n]
  /\ ostream_to_peer_'[n] = ostream_to_peer_[n]
  /\ hdl_to_istream_'[n] = hdl_to_istream_[n]
  /\ istream_to_hdl_'[n] = istream_to_hdl_[n]

\* What a failed ack-open for slot s does.
AckOpenFailure(s) ==
  (HandleAckOpen(Self, s, 1, null, null) /\ AckOpenFails(Self, s))
  => /\ \A h \in Peers :
          (s \in DOMAIN ostream_to_peer_[Self] /\ ostream_to_peer_[Self][s] = h)
          => /\ h \notin DOMAIN hdl_to_ostream_'[Self]
             /\ h \notin DOMAIN hdl_to_istream_'[Self]
             /\ s \notin DOMAIN ostream_to_peer_'[Self]
             /\ \A i \in DOMAIN istream_to_hdl_'[Self] : istream_to_hdl_'[Self][i] # h
             /\ EventsOf(events', "peer_disconnected")
                  = <<Ev("peer_disconnected", h, "invalid_stream_state", 0)>>
             /\ EventsOf(events', "peer_removed") = <<>>
     /\ (\/ s \notin DOMAIN ostream_to_peer_[Self]
         \/ owner(State(Self), s) \in {"worker", "store"})
          => /\ TablesUnchanged(Self)
             /\ EventsOf(events', "peer_disconnected") = <<>>
             /\ EventsOf(events', "peer_removed") = <<>>

\* C33: when the handling of an ack-open fails for slot s and s is the
\* outbound slot of peer h, both halves of h leave the path table and
\* peer_disconnected (not peer_removed) is emitted for h with reason
\* invalid_stream_state; when s is a worker or store slot, or no peer's
\* outbound slot, the path table is unchanged and no peer callback is
\* emitted.
C33_AckOpenFailure == [][\A s \in SlotIds : AckOpenFailure(s)]_vars


\* The path table, the peer manager and the inbound paths of endpoint n
\* are unchanged.
PeeringUnchanged(n) ==
  /\ TablesUnchanged(n)
  /\ out_'[n] = out_[n]
  /\ inbound_paths_'[n] = inbound_paths_[n]

\* What the rejected calls of one step leave behind.
ViolationFrame ==
  \A p \in Peers :
    /\ (p \in DOMAIN hdl_to_ostream_[Self] /\ HandlePeer(Self, p, {T_a}))
         => PeeringUnchanged(Self)
    /\ (p \in DOMAIN hdl_to_istream_[Self] /\ HandleOpenStreamOk(Self, p, 1))
         => PeeringUnchanged(Self)
    /\ \A s \in SlotArgs :
         /\ AddOpath(Self, s, p) => PeeringUnchanged(Self)
         /\ AddIpath(Self, s, p) => PeeringUnchanged(Self)

\* C34: start_handshake for a peer that has an outbound path, ack_peering
\* for a peer that has an inbound path, and add_ipath and add_opath called
\* with an invalid slot, a slot that has an entry or a handle that has an
\* entry leave the four maps of the path table, the paths and filters of
\* the managers and the inbound paths as they were.
C34_ViolationsChangeNothing == [][ViolationFrame]_vars


\* The maps hs (handle to slot) and ss (slot to handle) of one direction
\* hold no entry for peer h.
NoEntries(hs, ss, h) ==
  /\ h \notin DOMAIN hs
  /\ \A i \in DOMAIN ss : ss[i] # h

\* A graceful close of the inbound path s or a graceful drop of the
\* outbound path s removes the two entries of that direction only.
GracefulOneDirection(s) ==
  /\ (s \in DOMAIN istream_to_hdl_[Self] /\ HandleClose(Self, s))
       => /\ NoEntries(hdl_to_istream_'[Self], istream_to_hdl_'[Self],
                       istream_to_hdl_[Self][s])
          /\ hdl_to_ostream_'[Self] = hdl_to_ostream_[Self]
          /\ ostream_to_peer_'[Self] = ostream_to_peer_[Self]
  /\ (s \in DOMAIN ostream_to_peer_[Self] /\ HandleDrop(Self, s))
       => /\ NoEntries(hdl_to_ostream_'[Self], ostream_to_peer_'[Self],
                       ostream_to_peer_[Self][s])
          /\ hdl_to_istream_'[Self] = hdl_to_istream_[Self]
          /\ istream_to_hdl_'[Self] = istream_to_hdl_[Self]

\* A close or drop with an error as reason removes the entries of both
\* directions.
ForcedBothDirections(s) ==
  /\ (s \in DOMAIN istream_to_hdl_[Self] /\ HandleForcedClose(Self, s, "unreachable"))
       => /\ NoEntries(hdl_to_istream_'[Self], istream_to_hdl_'[Self],
                       istream_to_hdl_[Self][s])
          /\ NoEntries(hdl_to_ostream_'[Self], ostream_to_peer_'[Self],
                       istream_to_hdl_[Self][s])
  /\ (s \in DOMAIN ostream_to_peer_[Self] /\ HandleForcedDrop(Self, s, "unreachable"))
       => /\ NoEntries(hdl_to_istream_'[Self], istream_to_hdl_'[Self],
                       ostream_to_peer_[Self][s])
          /\ NoEntries(hdl_to_ostream_'[Self], ostream_to_peer_'[Self],
                       ostream_to_peer_[Self][s])

\* C35: a close or drop of a peer's path with a default-constructed
\* reason removes the two map entries of that direction and keeps the
\* peer's entries of the other direction; with any other reason the
\* entries of the other direction are removed too.
C35_CloseOneDirection ==
  [][\A s \in SlotIds : GracefulOneDirection(s) /\ ForcedBothDirections(s)]_vars


\* C36: the active sender of the peer manager is null whenever a handler
\* has returned, and no call of handle_batch (for a batch that arrives,
\* for a local batch or for a replay of unblock_peer) found it set: the
\* assertion at the entry of handle_batch never failed.
C36_ActiveSenderNull ==
  /\ \A n \in Nodes : out_[n].peer.active_sender = null
  /\ EventsOf(events, "assert") = <<>>

\* unblock_peer replayed two buffered batches through handle_batch and
\* the active sender is null again.
C36_Witness ==
  /\ events # <<>>
  /\ events[1].ev = "call" /\ events[1].reason = "unblock_peer"
  /\ Len(EventsOf(events, "handle_batch")) = 2
  /\ out_[Self].peer.active_sender = null


\* C37: when a batch from a peer that is not blocked is handled, every
\* node message of the batch is pushed exactly once to the worker manager
\* (data) or the store manager (command) if that manager has paths, and
\* to no other local manager, whatever its TTL, its topic and the forward
\* option.
C37_LocalDispatch ==
  [][\A s \in DOMAIN inbound_paths_[Self] : \A xs \in DispatchBatches :
       (/\ Numbered
        /\ inbound_paths_[Self][s].hdl \notin blocked_peers[Self]
        /\ HandleBatch(Self, s, xs))
       => \A i \in 1..Len(xs) : DeliveredLocally(Self, xs, i)]_vars

\* With forwarding on, a data message whose TTL expired at this hop was
\* not forwarded and the worker holds its one copy; the store holds none.
C37_Witness ==
  /\ options[Self].forward
  /\ \E j \in 1..Len(events) :
       events[j].ev = "warning" /\ events[j].seq = M2.id
  /\ LocalCount(Self, "worker", M2.id) = 1
  /\ LocalCount(Self, "store", M2.id) = 0
  /\ num_paths(out_[Self].store) > 0


\* The entries of peer q in the path table of endpoint n are unchanged.
EntriesKept(n, q) ==
  /\ (q \in DOMAIN hdl_to_ostream_[n]) = (q \in DOMAIN hdl_to_ostream_'[n])
  /\ (q \in DOMAIN hdl_to_istream_[n]) = (q \in DOMAIN hdl_to_istream_'[n])
  /\ q \in DOMAIN hdl_to_ostream_[n] => hdl_to_ostream_'[n][q] = hdl_to_ostream_[n][q]
  /\ q \in DOMAIN hdl_to_istream_[n] => hdl_to_istream_'[n][q] = hdl_to_istream_[n][q]
  /\ \A s \in SlotIds :
       /\ (s \in DOMAIN ostream_to_peer_[n] /\ ostream_to_peer_[n][s] = q)
            = (s \in DOMAIN ostream_to_peer_'[n] /\ ostream_to_peer_'[n][s] = q)
       /\ (s \in DOMAIN istream_to_hdl_[n] /\ istream_to_hdl_[n][s] = q)
            = (s \in DOMAIN istream_to_hdl_'[n] /\ istream_to_hdl_'[n][s] = q)

\* The outbound paths to peer q at endpoint n keep their filter and what
\* they have to emit: what the step emitted on a path, followed by what
\* the path still holds, is what it held.
PathsKept(n, q) ==
  \A s \in DOMAIN out_[n].peer.paths :
    out_[n].peer.paths[s].hdl = q
    => /\ s \in DOMAIN out_'[n].peer.paths
       /\ out_'[n].peer.paths[s].hdl = q
       /\ out_'[n].peer.paths[s].filter = out_[n].peer.paths[s].filter
       /\ EmittedOn(n, "peer", s) \o Backlog(n, "peer", s)' = Backlog(n, "peer", s)

\* What remove_peer(h), called by unpeer(h), leaves alone.
RemovePeerFrame(h) ==
  Unpeer(Self, h)
  => /\ \A q \in Peers \ {h} : EntriesKept(Self, q) /\ PathsKept(Self, q)
     /\ blocked_peers' = blocked_peers
     /\ blocked_msgs' = blocked_msgs

\* C38: remove_peer(h) changes neither the path-table entries nor the
\* filters nor the buffered outbound messages of any other peer, and it
\* changes neither the blocked set nor the batches buffered in
\* blocked_msgs, those of h included.
C38_RemovePeerLocal == [][\A h \in Peers : RemovePeerFrame(h)]_vars


\* Endpoints a and b both asked for a peering with the other and neither
\* has handled the other's request yet.
Crossing(a, b) ==
  /\ b \in DOMAIN pending_connections_[a]
  /\ a \in DOMAIN pending_connections_[b]

\* Endpoint a has at most one outbound and at most one inbound path to b.
NoDoublePath(a, b) ==
  /\ Cardinality({s \in DOMAIN out_[a].peer.paths : out_[a].peer.paths[s].hdl = b}) <= 1
  /\ Cardinality({s \in DOMAIN ostream_to_peer_[a] : ostream_to_peer_[a][s] = b}) <= 1
  /\ Cardinality({s \in DOMAIN inbound_paths_[a] : inbound_paths_[a][s].hdl = b}) <= 1
  /\ Cardinality({s \in DOMAIN istream_to_hdl_[a] : istream_to_hdl_[a][s] = b}) <= 1

C40_BufferedOnlyWhileBlocked ==
  /\ [](\A n \in Nodes : DOMAIN blocked_msgs[n] \subseteq blocked_peers[n])
  /\ [][\A p \in Peers :
          Unblocking(p)
          => p \notin blocked_peers'[Self] /\ p \notin DOMAIN blocked_msgs'[Self]]_vars

\* unblock_peer replayed the batches of one peer while the other peer is
\* still blocked and has batches buffered.
C40_Witness ==
  \E p \in Peers : \E q \in Peers \ {p} :
    /\ events # <<>> /\ events[1] = Ev("call", p, "unblock_peer", 0)
    /\ EventsOf(events, "handle_batch") # <<>>
    /\ p \notin blocked_peers[Self] /\ p \notin DOMAIN blocked_msgs[Self]
    /\ q \in blocked_peers[Self] /\ q \in DOMAIN blocked_msgs[Self]

====
